---- MODULE Spec2Model ----
(***************************************************************************)
(* A model of vcr (src/vcr/core.py): the decorator _vcr_inner, the         *)
(* process-wide VCRSystem (mode, playlist, flags), the connection proxy    *)
(* VCRSocket._exec / vcr_getaddrinfo and the playback matcher              *)
(* VCRSystem.replay_next.                                                  *)
(*                                                                         *)
(* The test body is the environment: between the decorator's entry and     *)
(* exit it creates proxies and calls transport operations in any order.    *)
(* A proxy keeps the mode it was constructed in (self._recording); in the  *)
(* runs of Spec a body uses the proxies it created itself, which die with  *)
(* it (VCRSocket.__del__).                                                 *)
(*                                                                         *)
(* Abstractions: a bytes payload is a sequence over {"P","E","b"}, where   *)
(* "P" stands for the prefix b'POST ', "E" for the terminator              *)
(* b'\r\n\r\n' and "b" for any other bytes; a non-bytes argument (address  *)
(* tuple, int) is an "obj". A tape file holds the pickled playlist; pickle *)
(* and gzip are library code and the file is modelled by its content.      *)
(***************************************************************************)
EXTENDS Integers, Sequences, FiniteSets, TLC

VARIABLES
    pyver,      \* the interpreter: "py2", "py34" (3.0 - 3.4) or "py35" (3.5+)
    cfg,        \* the class attributes of VCRSystem (process-wide flags)
    deco,       \* the options captured by the closure vcr(...) built
    installed,  \* socket.socket is VCRSocket (monkey patches applied)
    status,     \* VCRSystem.status
    playlist,   \* VCRSystem.playlist
    tape,       \* the tape file: [exists, content]
    src,        \* the current source text of the decorated function
    socks,      \* the _recording flags of the proxies the body can reach
    run,        \* where _vcr_inner is: "idle", or the body running in a mode
    saved,      \* VCRSystem.__enter__: [on |-> self._debug, dbg |-> self._system_debug]
    trace,      \* history: the transport calls of the current body and their outcomes
    recTrace,   \* history: the trace of the recording run that wrote the tape
    recSrc,     \* history: the source the tape on disk was recorded from
    printed,    \* history: what the current or last run printed to stdout
    outcome     \* history: how the last run of _vcr_inner ended

vars == <<pyver, cfg, deco, installed, status, playlist, tape, src, socks,
          run, saved, trace, recTrace, recSrc, printed, outcome>>

----------------------------------------------------------------------------
(* Bounds of the exploration *)

\* the longest body: transport calls per run
MaxCalls == 2
\* the longest source: lines of the decorated function, or examples of the
\* doctest
MaxLines == 3
\* how many unusual conditions hold at the same time: a process-wide flag or
\* a decorator option away from its default, an edited source, an interpreter
\* older than 3.5
MaxDeviations == 2

\* how many functions the normalization pipeline holds at most
MaxNorms == 2

\* how many chunks a stream delivers at most while it is captured
MaxReads == 2

----------------------------------------------------------------------------
(* Constants of the program *)

VCR_RECORD == 0
VCR_PLAYBACK == 1
\* VCRSystem.status does not exist before the first start()
NoStatus == -1

PyVersions == {"py2", "py34", "py35"}
\* utils.PY2
PY2 == pyver = "py2"
\* sys.version_info < (3, 5)
BeforePy35 == pyver \in {"py2", "py34"}

\* the defaults of the class attributes. recv_size 0 stands for None: the
\* code looks only at its truth value before it uses it
DefaultCfg ==
    [debug |-> FALSE, disabled |-> FALSE, overwrite |-> FALSE,
     playback_only |-> FALSE, raise_if_not_needed |-> FALSE,
     raise_if_source_code_changed |-> TRUE, raise_outgoing_mismatch |-> TRUE,
     outgoing_check_normalizations |-> <<>>,
     recv_endmarkers |-> <<>>, recv_size |-> 0]

FlagNames ==
    {"debug", "disabled", "overwrite", "playback_only", "raise_if_not_needed",
     "raise_if_source_code_changed", "raise_outgoing_mismatch"}

\* the defaults of vcr(debug=False, overwrite=False, disabled=False, playback_only=False)
DefaultDeco ==
    [debug |-> FALSE, overwrite |-> FALSE, disabled |-> FALSE, playback_only |-> FALSE]

OptNames == DOMAIN DefaultDeco

\* the two versions of the test the runs alternate between: the same
\* decorator line, another statement
SrcA == [kind |-> "method", lines |-> <<<<"a", "nl">>, <<"a", "nl">>>>]
SrcB == [kind |-> "method", lines |-> <<<<"a", "nl">>, <<"b", "nl">>>>]
Sources == {SrcA, SrcB}
NoSrc == [kind |-> "none", lines |-> <<>>]

\* the unusual conditions of a state between two runs
Deviations(c, d, s) ==
    Cardinality({f \in FlagNames : c[f] # DefaultCfg[f]}) +
    Cardinality({o \in OptNames : d[o] # DefaultDeco[o]}) +
    (IF s # SrcA THEN 1 ELSE 0) +
    (IF pyver # "py35" THEN 1 ELSE 0)

----------------------------------------------------------------------------
(* Values: payloads, arguments, calls, records *)

Bytes(s) == [t |-> "bytes", b |-> s]
Obj(s) == [t |-> "obj", b |-> <<s>>]

\* bytes.startswith(b'POST ')
StartsWithPost(a) == Len(a.b) > 0 /\ a.b[1] = "P"
\* bytes.endswith(b'\r\n\r\n')
EndsWithBlankLine(a) == Len(a.b) > 0 /\ a.b[Len(a.b)] = "E"
\* bytes + bytes
Concat(a1, a2) == Bytes(a1.b \o a2.b)

Call(n, a, k) == [name |-> n, args |-> a, kwargs |-> k]

NoKw == {}

\* the transport calls a body makes
LiveCalls ==
    { Call("sendall", <<Bytes(<<"P", "E">>)>>, NoKw),
      Call("sendall", <<Bytes(<<"b">>)>>, NoKw),
      Call("sendall", <<Bytes(<<"P", "E", "b">>)>>, NoKw),
      Call("recv", <<Obj("n")>>, NoKw),
      Call("makefile", <<>>, NoKw),
      Call("getaddrinfo", <<Obj("addr")>>, NoKw) }

\* what a real connection returns. No code of the program inspects a returned
\* value, so the answers are told apart by their position: the n-th call of a
\* body returns the n-th value
Values == <<"v1", "v2", "v3", "v4">>

Ok(v) == [k |-> "ok", v |-> v]
Raise(e) == [k |-> "raise", v |-> e]

\* one playlist item: (name, args, kwargs, value)
Item(c, v) == [name |-> c.name, args |-> c.args, kwargs |-> c.kwargs, value |-> v]

\* ''.join(lines): the characters of the lines, one after the other
RECURSIVE Join(_)
Join(ls) == IF ls = <<>> THEN <<>> ELSE Head(ls) \o Join(Tail(ls))

\* source_code.encode('UTF-8'): one byte for each of the characters used here
Utf8(text) ==
    [i \in 1..Len(text) |->
        CASE text[i] = "a" -> 97
          [] text[i] = "b" -> 98
          [] text[i] = "nl" -> 10]

\* hashlib.sha256(...).hexdigest(): a digest that tells any two byte strings
\* apart (no collisions)
Sha256(bytes) == [sha256 |-> bytes]

\* get_source_code_sha256 hashing every line, the first included: told apart
\* by C20
get_source_code_sha256_all_lines(s) == Sha256(Utf8(Join(s.lines)))

\* utils.get_source_code_sha256. A source is [kind, lines]: for a test method
\* the lines of inspect.getsourcelines(func)[0], the decorator line first;
\* for a doctest the sources of its examples
get_source_code_sha256(s) ==
    IF s.kind = "doctest"
    THEN Sha256(Utf8(Join(s.lines)))
    ELSE Sha256(Utf8(Join(Tail(s.lines))))

\* the source code hash, the first item of a written playlist (a str, not a 4-tuple)
ShaItem(h) == [name |-> "#sha256", args |-> <<>>, kwargs |-> NoKw, value |-> h]

NoTape == [exists |-> FALSE, content |-> <<>>]

----------------------------------------------------------------------------
(* VCRSystem.replay_next: the playback matcher *)

\* outgoing_check_normalizations: functions (name, args, kwargs) ->
\* (name, args, kwargs) supplied by the test. Three of them: one removes every
\* byte b of a bytes argument, one rewrites every E of a bytes argument to b,
\* one renames send to sendall
NormFuncs == {"drop_b", "E_to_b", "send_as_sendall"}

RECURSIVE DropB(_)
DropB(s) ==
    IF s = <<>> THEN <<>>
    ELSE IF Head(s) = "b" THEN DropB(Tail(s))
    ELSE <<Head(s)>> \o DropB(Tail(s))

EToB(s) == [i \in DOMAIN s |-> IF s[i] = "E" THEN "b" ELSE s[i]]

ApplyNorm(f, t) ==
    IF f = "drop_b"
    THEN Call(t.name,
              [i \in DOMAIN t.args |->
                  IF t.args[i].t = "bytes" THEN Bytes(DropB(t.args[i].b))
                  ELSE t.args[i]],
              t.kwargs)
    ELSE IF f = "E_to_b"
    THEN Call(t.name,
              [i \in DOMAIN t.args |->
                  IF t.args[i].t = "bytes" THEN Bytes(EToB(t.args[i].b))
                  ELSE t.args[i]],
              t.kwargs)
    ELSE Call(IF t.name = "send" THEN "sendall" ELSE t.name, t.args, t.kwargs)

\* the normalization loop with the functions taken last to first: told apart
\* by C24
RECURSIVE NormalizeReversed(_, _)
NormalizeReversed(fs, t) ==
    IF fs = <<>> THEN t
    ELSE ApplyNorm(Head(fs), NormalizeReversed(Tail(fs), t))

\* for norm_func in cls.outgoing_check_normalizations: the triple goes
\* through the functions in list order
RECURSIVE Normalize(_, _)
Normalize(fs, t) ==
    IF fs = <<>> THEN t
    ELSE Normalize(Tail(fs), ApplyNorm(Head(fs), t))

Step(pl, out) == [pl |-> pl, out |-> out]

\* the lookahead of replay_next (the "and" chain short-circuits left to right):
\* the expected args, the playlist left and the error raised on the way, if any
Lookahead(e, pl, c) ==
    LET no == [err |-> "", args |-> e.args, pl |-> pl]
        fail(x) == [err |-> x, args |-> e.args, pl |-> pl]
    IN  IF ~(c.name = "sendall" /\ c.args # <<>> /\ Len(c.args) = 1) THEN no
        ELSE IF c.args[1].t # "bytes" THEN fail("AttributeError")
        ELSE IF ~StartsWithPost(c.args[1]) THEN no
        ELSE IF e.args = <<>> THEN fail("IndexError")
        ELSE IF e.args[1].t # "bytes" THEN fail("AttributeError")
        ELSE IF ~EndsWithBlankLine(e.args[1]) THEN no
        ELSE IF EndsWithBlankLine(c.args[1]) THEN no
        ELSE IF pl = <<>> THEN no
        ELSE LET n == Head(pl)
             IN  IF ~(n.name = "sendall" /\ Len(n.args) = 1 /\ n.kwargs = c.kwargs) THEN no
                 ELSE IF n.args[1].t # "bytes" THEN fail("TypeError")
                 ELSE [err |-> "", args |-> <<Concat(e.args[1], n.args[1])>>, pl |-> Tail(pl)]

\* Compare that raises the mismatch without clear_playlist(): told apart by
\* C14
CompareKeepsQueue(e, pl, c, checking) ==
    IF e.name = "#sha256" THEN Step(pl, Raise("ValueError"))
    ELSE IF ~(checking /\ c.name \notin {"recv", "makefile"}) THEN Step(pl, Ok(e.value))
    ELSE LET look == Lookahead(e, pl, c)
         IN  IF look.err # "" THEN Step(pl, Raise(look.err))
             ELSE IF Normalize(cfg.outgoing_check_normalizations,
                                  Call(e.name, look.args, e.kwargs)) #
                        Normalize(cfg.outgoing_check_normalizations, c)
                  THEN Step(look.pl, Raise("Mismatch"))
                  ELSE Step(look.pl, Ok(e.value))

\* Compare that checks whatever raise_outgoing_mismatch says: told apart by
\* C16
CompareAlwaysChecks(e, pl, c, checking) ==
    IF e.name = "#sha256" THEN Step(pl, Raise("ValueError"))
    ELSE IF c.name \in {"recv", "makefile"} THEN Step(pl, Ok(e.value))
    ELSE LET look == Lookahead(e, pl, c)
         IN  IF look.err # "" THEN Step(pl, Raise(look.err))
             ELSE IF Normalize(cfg.outgoing_check_normalizations,
                                  Call(e.name, look.args, e.kwargs)) #
                        Normalize(cfg.outgoing_check_normalizations, c)
                  THEN Step(<<>>, Raise("Mismatch"))
                  ELSE Step(look.pl, Ok(e.value))

\* Compare that checks recv and makefile calls as well: told apart by C35
CompareChecksReads(e, pl, c, checking) ==
    IF e.name = "#sha256" THEN Step(pl, Raise("ValueError"))
    ELSE IF ~checking THEN Step(pl, Ok(e.value))
    ELSE LET look == Lookahead(e, pl, c)
         IN  IF look.err # "" THEN Step(pl, Raise(look.err))
             ELSE IF Normalize(cfg.outgoing_check_normalizations,
                                  Call(e.name, look.args, e.kwargs)) #
                        Normalize(cfg.outgoing_check_normalizations, c)
                  THEN Step(<<>>, Raise("Mismatch"))
                  ELSE Step(look.pl, Ok(e.value))

\* replay_next after name_expected, ... = cls.playlist.pop(0) gave e and left pl
Compare(e, pl, c, checking) ==
    IF e.name = "#sha256" THEN Step(pl, Raise("ValueError"))
    ELSE IF ~(checking /\ c.name \notin {"recv", "makefile"}) THEN Step(pl, Ok(e.value))
    ELSE LET look == Lookahead(e, pl, c)
         IN  IF look.err # "" THEN Step(pl, Raise(look.err))
             ELSE IF Normalize(cfg.outgoing_check_normalizations,
                                  Call(e.name, look.args, e.kwargs)) #
                        Normalize(cfg.outgoing_check_normalizations, c)
                  THEN Step(<<>>, Raise("Mismatch"))
                  ELSE Step(look.pl, Ok(e.value))

\* ReplayNext that reads the head of the playlist and leaves it queued: told
\* apart by C5
ReplayNextKeepsHead(pl, c, checking, old) ==
    IF pl = <<>> THEN Step(pl, Raise("IndexError"))
    ELSE Step(pl, Compare(Head(pl), Tail(pl), c, checking).out)

\* ReplayNext that answers a call on the empty playlist with a value: told
\* apart by C15
ReplayNextEmptyReturns(pl, c, checking, old) ==
    IF pl = <<>> THEN Step(pl, Ok("none"))
    ELSE IF old /\ c.name = "makefile" /\ Head(pl).name = "sendall"
         THEN IF Tail(pl) = <<>> THEN Step(<<>>, Raise("IndexError"))
              ELSE Compare(Head(Tail(pl)), Tail(Tail(pl)), c, checking)
         ELSE Compare(Head(pl), Tail(pl), c, checking)

\* replay_next(name_got, args_got, kwargs_got) on playlist pl: the playlist it
\* leaves and what the caller gets
ReplayNext(pl, c, checking, old) ==
    IF pl = <<>> THEN Step(pl, Raise("IndexError"))
    ELSE IF old /\ c.name = "makefile" /\ Head(pl).name = "sendall"
         THEN IF Tail(pl) = <<>> THEN Step(<<>>, Raise("IndexError"))
              ELSE Compare(Head(Tail(pl)), Tail(Tail(pl)), c, checking)
         ELSE Compare(Head(pl), Tail(pl), c, checking)

----------------------------------------------------------------------------
(* VCRSystem.start / stop, __enter__ / __exit__ *)

\* clear_playlist(); status = VCR_RECORD; apply monkey patches
start == [playlist |-> <<>>, status |-> VCR_RECORD, installed |-> TRUE]

\* stop that leaves the patches in place: told apart by C10
stopKeepsPatches == [playlist |-> <<>>, status |-> VCR_RECORD, installed |-> TRUE]

\* revert monkey patches; clear_playlist(); status = VCR_RECORD
stop == [playlist |-> <<>>, status |-> VCR_RECORD, installed |-> FALSE]

NotSaved == [on |-> FALSE, dbg |-> FALSE]

\* __enter__: VCRSystem(debug=debug) saves and sets VCRSystem.debug
EnterCfg(c, d) == IF d.debug THEN [c EXCEPT !.debug = TRUE] ELSE c
EnterSaved(c, d) == IF d.debug THEN [on |-> TRUE, dbg |-> c.debug] ELSE NotSaved

\* __exit__ that leaves VCRSystem.debug as the run set it: told apart by C18
ExitCfgKeepsDebug(c, s) == c

\* __exit__: restores VCRSystem.debug
ExitCfg(c, s) == IF s.on THEN [c EXCEPT !.debug = s.dbg] ELSE c

\* VCRSystem.reset()
reset(c) ==
    [c EXCEPT !.debug = FALSE, !.disabled = FALSE, !.overwrite = FALSE,
              !.playback_only = FALSE, !.outgoing_check_normalizations = <<>>,
              !.recv_endmarkers = <<>>, !.recv_size = 0]

----------------------------------------------------------------------------
(* vcr._vcr_inner: mode selection *)

\* IsDisabled without the process-wide flag: told apart by C9
IsDisabledDecoratorOnly(d, c) == d.disabled

\* if disabled or VCRSystem.disabled
IsDisabled(d, c) == d.disabled \/ c.disabled

\* RecordMode from the decorator's options alone: told apart by C28
RecordModeDecoratorOnly(d, c, t) ==
    ~d.playback_only /\ (~t.exists \/ d.overwrite)

\* RecordMode with overwrite taking precedence over playback_only: told apart
\* by C1
RecordModeOverwriteFirst(d, c, t) ==
    d.overwrite \/ c.overwrite \/
    (~(d.playback_only \/ c.playback_only) /\ ~t.exists)

\* if not (playback_only or VCRSystem.playback_only) and
\*    (not os.path.isfile(tape) or overwrite or VCRSystem.overwrite)
RecordMode(d, c, t) ==
    ~(d.playback_only \/ c.playback_only) /\ (~t.exists \/ d.overwrite \/ c.overwrite)

Outcome(k, e, m) == [k |-> k, e |-> e, mode |-> m]

\* a banner printed whatever VCRSystem.debug says: told apart by C21
BannerAlways(c, b) == {b}

\* if VCRSystem.debug: print('\nVCR RECORDING (%s) ...') / print('\nVCR
\* PLAYBACK (%s) ...'): the mode banner
Banner(c, b) == IF c.debug THEN {b} ELSE {}

\* if VCRSystem.debug: print(...): every other line the engine prints (the
\* loaded playlist, the fingerprint match, one line per proxy and per call)
Detail(c) == IF c.debug THEN {"detail"} ELSE {}

----------------------------------------------------------------------------
(* The state after import: no session yet, any interpreter, any tape on disk
   that an earlier recording could have left is produced by the runs below *)

Init ==
    /\ pyver \in PyVersions
    /\ Deviations(DefaultCfg, DefaultDeco, SrcA) <= MaxDeviations
    /\ cfg = DefaultCfg
    /\ deco = DefaultDeco
    /\ installed = FALSE
    /\ status = NoStatus
    /\ playlist = <<>>
    /\ tape = NoTape
    /\ src = SrcA
    /\ socks = {}
    /\ run = "idle"
    /\ saved = NotSaved
    /\ trace = <<>>
    /\ recTrace = <<>>
    /\ recSrc = NoSrc
    /\ printed = {}
    /\ outcome = Outcome("none", "", "")

----------------------------------------------------------------------------
(* Between runs: the test module sets flags, decorates, edits the source *)

\* VCRSystem.<flag> = value
SetFlag(f) ==
    /\ run = "idle"
    /\ cfg' = [cfg EXCEPT ![f] = ~@]
    /\ Deviations(cfg', deco, src) <= MaxDeviations
    /\ UNCHANGED <<pyver, deco, installed, status, playlist, tape, src, socks,
                   run, saved, trace, recTrace, recSrc, printed, outcome>>

\* vcr(decorated_func, debug, overwrite, disabled, playback_only): a closure
Decorate(d) ==
    /\ run = "idle"
    /\ d # deco
    /\ Deviations(cfg, d, src) <= MaxDeviations
    /\ deco' = d
    /\ UNCHANGED <<pyver, cfg, installed, status, playlist, tape, src, socks,
                   run, saved, trace, recTrace, recSrc, printed, outcome>>

\* the source of the test function is edited
EditSource ==
    /\ run = "idle"
    /\ src' \in Sources \ {src}
    /\ Deviations(cfg, deco, src') <= MaxDeviations
    /\ UNCHANGED <<pyver, cfg, deco, installed, status, playlist, tape, socks,
                   run, saved, trace, recTrace, recSrc, printed, outcome>>

\* VCRSystem.outgoing_check_normalizations = [...] between two runs
SetNormalizations(fs) ==
    /\ run = "idle"
    /\ fs # cfg.outgoing_check_normalizations
    /\ cfg' = [cfg EXCEPT !.outgoing_check_normalizations = fs]
    /\ UNCHANGED <<pyver, deco, installed, status, playlist, tape, src, socks,
                   run, saved, trace, recTrace, recSrc, printed, outcome>>

\* VCRSystem.recv_size = ... ; VCRSystem.recv_endmarkers = [...] between two
\* runs
SetRecv(size, markers) ==
    /\ run = "idle"
    /\ cfg' = [cfg EXCEPT !.recv_size = size, !.recv_endmarkers = markers]
    /\ cfg' # cfg
    /\ UNCHANGED <<pyver, deco, installed, status, playlist, tape, src, socks,
                   run, saved, trace, recTrace, recSrc, printed, outcome>>

\* VCRSystem.reset()
Reset ==
    /\ run = "idle"
    /\ cfg' = reset(cfg)
    /\ cfg' # cfg
    /\ UNCHANGED <<pyver, deco, installed, status, playlist, tape, src, socks,
                   run, saved, trace, recTrace, recSrc, printed, outcome>>

\* VCRSystem.reset() called by the test body, inside the session
ResetInBody ==
    /\ run \in {"rec", "play"}
    /\ cfg' = reset(cfg)
    /\ UNCHANGED <<pyver, deco, installed, status, playlist, tape, src, socks,
                   run, saved, trace, recTrace, recSrc, printed, outcome>>

----------------------------------------------------------------------------
(* _vcr_inner up to the call of the test body *)

\* if disabled or VCRSystem.disabled: return func(*args, **kwargs)
RunDisabled ==
    /\ run = "idle"
    /\ IsDisabled(deco, cfg)
    /\ run' = "bare"
    /\ trace' = <<>>
    /\ outcome' = Outcome("running", "", "bare")
    /\ printed' = {}
    /\ UNCHANGED <<pyver, cfg, deco, installed, status, playlist, tape, src,
                   socks, saved, recTrace, recSrc>>

\* with VCRSystem(debug=debug): record mode, VCRSystem.status = VCR_RECORD
RunRecord ==
    /\ run = "idle"
    /\ ~IsDisabled(deco, cfg)
    /\ RecordMode(deco, cfg, tape)
    /\ ~PY2
    /\ cfg' = EnterCfg(cfg, deco)
    /\ saved' = EnterSaved(cfg, deco)
    /\ playlist' = start.playlist
    /\ installed' = start.installed
    /\ status' = VCR_RECORD
    /\ run' = "rec"
    /\ trace' = <<>>
    /\ outcome' = Outcome("running", "", "rec")
    /\ printed' = Banner(EnterCfg(cfg, deco), "VCR RECORDING")
    /\ UNCHANGED <<pyver, deco, tape, src, socks, recTrace, recSrc>>

\* record mode under PY2: warn, VCRSystem.stop(), return func(*args, **kwargs)
RunRecordPY2 ==
    /\ run = "idle"
    /\ ~IsDisabled(deco, cfg)
    /\ RecordMode(deco, cfg, tape)
    /\ PY2
    /\ cfg' = EnterCfg(cfg, deco)
    /\ saved' = EnterSaved(cfg, deco)
    /\ playlist' = stop.playlist
    /\ installed' = stop.installed
    /\ status' = stop.status
    /\ run' = "py2"
    /\ trace' = <<>>
    /\ outcome' = Outcome("running", "", "py2")
    /\ printed' = {}
    /\ UNCHANGED <<pyver, deco, tape, src, socks, recTrace, recSrc>>

\* A playback branch that starts the session without looking for the tape:
\* told apart by C7
RunPlayNoTapeTest ==
    /\ run = "idle"
    /\ ~IsDisabled(deco, cfg)
    /\ ~RecordMode(deco, cfg, tape)
    /\ ~tape.exists
    /\ cfg' = EnterCfg(cfg, deco)
    /\ saved' = EnterSaved(cfg, deco)
    /\ playlist' = <<>>
    /\ installed' = start.installed
    /\ status' = VCR_PLAYBACK
    /\ run' = "play"
    /\ trace' = <<>>
    /\ outcome' = Outcome("running", "", "play")
    /\ printed' = Banner(EnterCfg(cfg, deco), "VCR PLAYBACK")
    /\ UNCHANGED <<pyver, deco, tape, src, socks, recTrace, recSrc>>

\* playback mode and the tape is missing: raise IOError; __exit__ runs
RunPlayMissing ==
    /\ run = "idle"
    /\ ~IsDisabled(deco, cfg)
    /\ ~RecordMode(deco, cfg, tape)
    /\ ~tape.exists
    /\ cfg' = ExitCfg(EnterCfg(cfg, deco), EnterSaved(cfg, deco))
    /\ playlist' = stop.playlist
    /\ installed' = stop.installed
    /\ status' = stop.status
    /\ trace' = <<>>
    /\ outcome' = Outcome("raise", "MissingTape", "play")
    /\ printed' = Banner(EnterCfg(cfg, deco), "VCR PLAYBACK")
    /\ UNCHANGED <<pyver, deco, tape, src, socks, run, saved, recTrace, recSrc>>

\* IsStale with the flag read the wrong way round: told apart by C12
IsStaleFlagInverted(c, t, s) ==
    ~c.raise_if_source_code_changed /\ get_source_code_sha256(s) # Head(t.content).value

\* the source code hash of the loaded playlist differs and
\* raise_if_source_code_changed is set
IsStale(c, t, s) ==
    c.raise_if_source_code_changed /\ get_source_code_sha256(s) # Head(t.content).value

\* playback mode, the playlist is loaded, the source code has changed:
\* raise VCRPlaybackSourceCodeChangedError; __exit__ runs
RunPlayStale ==
    /\ run = "idle"
    /\ ~IsDisabled(deco, cfg)
    /\ ~RecordMode(deco, cfg, tape)
    /\ tape.exists
    /\ IsStale(cfg, tape, src)
    /\ cfg' = ExitCfg(EnterCfg(cfg, deco), EnterSaved(cfg, deco))
    /\ playlist' = stop.playlist
    /\ installed' = stop.installed
    /\ status' = stop.status
    /\ trace' = <<>>
    /\ outcome' = Outcome("raise", "SourceChanged", "play")
    /\ printed' = Banner(EnterCfg(cfg, deco), "VCR PLAYBACK") \cup Detail(EnterCfg(cfg, deco))
    /\ UNCHANGED <<pyver, deco, tape, src, socks, run, saved, recTrace, recSrc>>

\* A playback branch that warns when the source code hash of the loaded
\* playlist differs: told apart by C26
RunPlayWarns ==
    /\ run = "idle"
    /\ ~IsDisabled(deco, cfg)
    /\ ~RecordMode(deco, cfg, tape)
    /\ tape.exists
    /\ ~IsStale(cfg, tape, src)
    /\ cfg' = EnterCfg(cfg, deco)
    /\ saved' = EnterSaved(cfg, deco)
    /\ installed' = start.installed
    /\ status' = VCR_PLAYBACK
    /\ playlist' = Tail(tape.content)
    /\ run' = "play"
    /\ trace' = <<>>
    /\ outcome' = IF get_source_code_sha256(src) # Head(tape.content).value
                  THEN Outcome("warned", "", "play")
                  ELSE Outcome("running", "", "play")
    /\ printed' = Banner(EnterCfg(cfg, deco), "VCR PLAYBACK") \cup Detail(EnterCfg(cfg, deco))
    /\ UNCHANGED <<pyver, deco, tape, src, socks, recTrace, recSrc>>

\* playback mode: VCRSystem.status = VCR_PLAYBACK, the playlist is loaded and
\* its first item popped
RunPlay ==
    /\ run = "idle"
    /\ ~IsDisabled(deco, cfg)
    /\ ~RecordMode(deco, cfg, tape)
    /\ tape.exists
    /\ ~IsStale(cfg, tape, src)
    /\ cfg' = EnterCfg(cfg, deco)
    /\ saved' = EnterSaved(cfg, deco)
    /\ installed' = start.installed
    /\ status' = VCR_PLAYBACK
    /\ playlist' = Tail(tape.content)
    /\ run' = "play"
    /\ trace' = <<>>
    /\ outcome' = Outcome("running", "", "play")
    /\ printed' = Banner(EnterCfg(cfg, deco), "VCR PLAYBACK") \cup Detail(EnterCfg(cfg, deco))
    /\ UNCHANGED <<pyver, deco, tape, src, socks, recTrace, recSrc>>

----------------------------------------------------------------------------
(* The test body: proxies and transport calls *)

Did(c, via, out) == [c |-> c, via |-> via, out |-> out]

\* what the real connection does with a call: it returns a value or raises
RealOutcomes == {Raise("socket.error"), Ok(Values[Len(trace) + 1])}

\* RecordCall that puts the new record first: told apart by C6
RecordCallFirst(pl, c, out) ==
    IF out.k = "ok" THEN <<Item(c, out.v)>> \o pl ELSE pl

\* RecordCall that appends nothing: told apart by C22
RecordCallDrops(pl, c, out) == pl

\* record mode of _exec and vcr_getaddrinfo: the real call, then
\* VCRSystem.playlist.append((name, args, kwargs, copy.copy(value)))
RecordCall(pl, c, out) == IF out.k = "ok" THEN Append(pl, Item(c, out.v)) ELSE pl

\* VCRSocket.__init__ / VCRSSLSocket.__init__: self._recording = VCRSystem.is_recording
NewSocket ==
    /\ run # "idle"
    /\ installed
    /\ (status = VCR_RECORD) \notin socks
    /\ socks' = socks \cup {status = VCR_RECORD}
    /\ printed' = printed \cup Detail(cfg)
    /\ UNCHANGED <<pyver, cfg, deco, installed, status, playlist, tape, src,
                   run, saved, trace, recTrace, recSrc, outcome>>

\* the body takes up a proxy that was constructed in the recording run that
\* wrote the tape and was kept alive since (a module-level connection): the
\* proxy still has self._recording = True
ReuseSocket ==
    /\ run # "idle"
    /\ TRUE \notin socks
    /\ \E i \in 1..Len(recTrace) : recTrace[i].via = "R"
    /\ socks' = socks \cup {TRUE}
    /\ UNCHANGED <<pyver, cfg, deco, installed, status, playlist, tape, src,
                   run, saved, trace, recTrace, recSrc, printed, outcome>>

\* VCRSocket._exec(name, *args, **kwargs) on a proxy built in record mode
ExecRecording(c) ==
    /\ run # "idle"
    /\ TRUE \in socks
    /\ c.name # "getaddrinfo"
    /\ Len(trace) < MaxCalls
    /\ \E out \in RealOutcomes :
          /\ playlist' = RecordCall(playlist, c, out)
          /\ trace' = Append(trace, Did(c, "R", out))
          /\ printed' = printed \cup (IF out.k = "ok" THEN Detail(cfg) ELSE {})
    /\ UNCHANGED <<pyver, cfg, deco, installed, status, tape, src, socks,
                   run, saved, recTrace, recSrc, outcome>>

\* VCRSystem.recv_timeout, counted in ticks of a tenth of it: the
\* time.sleep(0.1 * recv_timeout) of the capture loop takes one tick
recv_timeout == 10

\* what the stream does at one read of the capture loop (value.peek() and
\* value.read()). Bytes arrive after a delay below the socket timeout
Data(ch, d) == [kind |-> "data", chunk |-> ch, delay |-> d]
\* the peer has closed: every read from now on returns b'' at once
Eof == [kind |-> "eof", chunk |-> <<>>, delay |-> 0]
\* the read raises socket.error: socket.timeout after recv_timeout of
\* silence, or another error at once
Err(d) == [kind |-> "error", chunk |-> <<>>, delay |-> d]

Chunks == {<<"b">>, <<"b", "E">>}
Delays == {0, 6}
DataEvents == {Data(ch, d) : ch \in Chunks, d \in Delays}
Endings == {Eof, Err(0), Err(recv_timeout)}

\* the chunks the stream delivers, then how it ends
Schedules ==
    [reads : UNION {[1..n -> DataEvents] : n \in 0..MaxReads}, last : Endings]

\* data.endswith(marker)
EndsWith(data, marker) ==
    /\ Len(marker) <= Len(data)
    /\ SubSeq(data, Len(data) - Len(marker) + 1, Len(data)) = marker

\* for marker in VCRSystem.recv_endmarkers: if data.endswith(marker): break
MarkerSeen(data, markers) ==
    \E i \in DOMAIN markers : EndsWith(data, markers[i])

\* io.BytesIO holding the captured bytes
Stream(data) == [stream |-> data]

\* the test on the clock alone, without the one that follows the first
\* data: told apart by C31
TimedOutLate(temp, now, begin) == now - begin > recv_timeout * 2

\* the two tests at the top of the loop: some data and recv_timeout since
\* the last chunk, or no data and twice recv_timeout
TimedOut(temp, now, begin) ==
    \/ temp # <<>> /\ now - begin > recv_timeout
    \/ now - begin > recv_timeout * 2

\* the while True loop of _exec over a stream. temp is the buffer, now is
\* time.time() since the loop began, begin the time of the last chunk; h is
\* history: the reads made so far and the time of the first chunk that ended
\* with an end marker (-1: none yet). The result says how the loop ended
RECURSIVE CaptureLoop(_, _, _, _, _, _, _)
CaptureLoop(c, rs, last, temp, now, begin, h) ==
    LET done(how, t, n) ==
            [data |-> temp, elapsed |-> t, reads |-> n, marker |-> h.marker,
             begin |-> begin, how |-> how,
             err |-> IF how = "TypeError" THEN how ELSE ""]
    IN  IF TimedOut(temp, now, begin) THEN done("timeout", now, h.reads)
        \* value.read(len(VCRSystem.recv_size)): len() of an int
        ELSE IF c.recv_size # 0 THEN done("TypeError", now, h.reads)
        ELSE IF rs # <<>>
        THEN LET data == Head(rs).chunk
                 t == now + Head(rs).delay
             IN  \* the break on an end marker leaves the for loop over the
                 \* markers; the while loop goes on
                 CaptureLoop(c, Tail(rs), last, temp \o data, t, t,
                     [reads |-> h.reads + 1,
                      marker |-> IF /\ h.marker < 0
                                    /\ c.recv_endmarkers # <<>>
                                    /\ MarkerSeen(data, c.recv_endmarkers)
                                 THEN t ELSE h.marker])
        ELSE IF last.kind = "eof"
        THEN CaptureLoop(c, rs, last, temp, now + 1, begin,
                         [h EXCEPT !.reads = @ + 1])
        ELSE done("socket.error", now + last.delay, h.reads + 1)

\* a capture that hands the socket error to the caller: told apart by C32
CaptureOutcomeRaises(r) ==
    IF r.err # "" THEN Raise(r.err)
    ELSE IF r.how = "socket.error" THEN Raise("socket.error")
    ELSE Ok(Stream(r.data))

\* after the loop: temp.seek(0), the record is appended and a copy of temp
\* returned; an error other than socket.error has left _exec before that
CaptureOutcome(r) ==
    IF r.err # "" THEN Raise(r.err) ELSE Ok(Stream(r.data))

\* VCRSocket._exec in record mode when the real call returned a stream
\* (io.BufferedIOBase, not io.BytesIO): the capture loop runs, the captured
\* bytes are recorded and a copy of them is returned. The trace keeps what
\* the stream did (sched) and how the loop went (cap)
ExecCapture(c, sched) ==
    /\ run # "idle"
    /\ TRUE \in socks
    /\ c.name = "makefile"
    /\ Len(trace) < MaxCalls
    /\ LET r == CaptureLoop(cfg, sched.reads, sched.last, <<>>, 0, 0,
                            [reads |-> 0, marker |-> -1])
       IN  /\ playlist' = RecordCall(playlist, c, CaptureOutcome(r))
           /\ trace' = Append(trace, [c |-> c, via |-> "R",
                                      out |-> CaptureOutcome(r),
                                      cap |-> r, sched |-> sched])
           /\ printed' = printed \cup Detail(cfg)
    /\ UNCHANGED <<pyver, cfg, deco, installed, status, tape, src, socks,
                   run, saved, recTrace, recSrc, outcome>>

\* what select.select and epoll.poll answer: the lists of ready objects
Ready(r, w, x) == Ok([r |-> r, w |-> w, x |-> x])
Events(l) == Ok([events |-> l])

\* a select stand-in that reports the read list as ready: told apart by C33
vcr_select_select_echo(st, r, w, x, real) ==
    IF st = VCR_PLAYBACK THEN Ready(r, w, x) ELSE real

\* vcr_select_select(r, w, x, timeout): in playback [], w, x; otherwise the
\* answer of the real select
vcr_select_select(st, r, w, x, real) ==
    IF st = VCR_PLAYBACK THEN Ready(<<>>, w, x) ELSE real

\* vcr_select_epoll().poll(): in playback the FakeEPoll answers []; otherwise
\* the answer of the real epoll object
vcr_select_epoll(st, real) ==
    IF st = VCR_PLAYBACK THEN Events(<<>>) ELSE real

\* the body calls select.select(r, w, x) while the patches are applied; the
\* real select reports any part of what was asked about
Select(r, w, x) ==
    /\ run # "idle"
    /\ installed
    /\ Len(trace) < MaxCalls
    /\ \E rr \in {<<>>, r}, ww \in {<<>>, w} :
          trace' = Append(trace,
              Did(Call("select", <<r, w, x>>, NoKw),
                  IF status = VCR_PLAYBACK THEN "S" ELSE "R",
                  vcr_select_select(status, r, w, x, Ready(rr, ww, <<>>))))
    /\ UNCHANGED <<pyver, cfg, deco, installed, status, playlist, tape, src,
                   socks, run, saved, recTrace, recSrc, printed, outcome>>

\* the body calls select.epoll() and polls the object it got
Epoll ==
    /\ run # "idle"
    /\ installed
    /\ Len(trace) < MaxCalls
    /\ \E l \in {<<>>, <<"s">>} :
          trace' = Append(trace,
              Did(Call("epoll.poll", <<>>, NoKw),
                  IF status = VCR_PLAYBACK THEN "S" ELSE "R",
                  vcr_select_epoll(status, Events(l))))
    /\ UNCHANGED <<pyver, cfg, deco, installed, status, playlist, tape, src,
                   socks, run, saved, recTrace, recSrc, printed, outcome>>

\* VCRSocket._exec(name, *args, **kwargs) on a proxy built in playback mode
ExecPlayback(c) ==
    /\ run # "idle"
    /\ FALSE \in socks
    /\ c.name # "getaddrinfo"
    /\ Len(trace) < MaxCalls
    /\ LET r == ReplayNext(playlist, c, cfg.raise_outgoing_mismatch, BeforePy35)
       IN  /\ playlist' = r.pl
           /\ trace' = Append(trace, Did(c, "P", r.out))
           /\ printed' = printed \cup
                  (IF r.out # Raise("IndexError") THEN Detail(cfg) ELSE {})
    /\ UNCHANGED <<pyver, cfg, deco, installed, status, tape, src, socks,
                   run, saved, recTrace, recSrc, outcome>>

\* vcr_getaddrinfo(*args, **kwargs), installed as socket.getaddrinfo
Getaddrinfo(c) ==
    /\ run # "idle"
    /\ installed
    /\ c.name = "getaddrinfo"
    /\ Len(trace) < MaxCalls
    /\ IF status = VCR_RECORD
       THEN \E out \in RealOutcomes :
               /\ playlist' = RecordCall(playlist, c, out)
               /\ trace' = Append(trace, Did(c, "fn", out))
               /\ printed' = printed \cup (IF out.k = "ok" THEN Detail(cfg) ELSE {})
       ELSE LET r == ReplayNext(playlist, c, cfg.raise_outgoing_mismatch, BeforePy35)
            IN  /\ playlist' = r.pl
                /\ trace' = Append(trace, Did(c, "fn", r.out))
                /\ printed' = printed \cup
                       (IF r.out # Raise("IndexError") THEN Detail(cfg) ELSE {})
    /\ UNCHANGED <<pyver, cfg, deco, installed, status, tape, src, socks,
                   run, saved, recTrace, recSrc, outcome>>

\* VCRSocket.setsockopt / settimeout / setblocking / close: never through
\* _exec. A recording proxy calls the real socket, a playback proxy returns
\* None; close always closes the real socket object of the proxy
PassNames == {"setsockopt", "settimeout", "setblocking", "close"}

\* PassThrough that sends the call of a playback proxy through replay_next,
\* as _exec does: told apart by C37
PassThroughReplays(c) ==
    /\ run # "idle"
    /\ c.name \in PassNames
    /\ Len(trace) < MaxCalls
    /\ \E rec \in socks :
          IF rec
          THEN /\ \E out \in RealOutcomes : trace' = Append(trace, Did(c, "R", out))
               /\ playlist' = playlist
          ELSE LET r == ReplayNext(playlist, c, cfg.raise_outgoing_mismatch, BeforePy35)
               IN  /\ trace' = Append(trace, Did(c, "none", r.out))
                   /\ playlist' = r.pl
    /\ printed' = printed \cup Detail(cfg)
    /\ UNCHANGED <<pyver, cfg, deco, installed, status, tape, src,
                   socks, run, saved, recTrace, recSrc, outcome>>

PassThrough(c) ==
    /\ run # "idle"
    /\ c.name \in PassNames
    /\ Len(trace) < MaxCalls
    /\ \E rec \in socks :
          IF rec \/ c.name = "close"
          THEN \E out \in RealOutcomes : trace' = Append(trace, Did(c, "R", out))
          ELSE trace' = Append(trace, Did(c, "none", Ok("None")))
    /\ printed' = printed \cup Detail(cfg)
    /\ UNCHANGED <<pyver, cfg, deco, installed, status, playlist, tape, src,
                   socks, run, saved, recTrace, recSrc, outcome>>

\* VCRSocket.fileno: never through _exec. A recording proxy asks the real
\* socket, a playback proxy answers with the descriptor of its temporary file
Fileno ==
    /\ run # "idle"
    /\ Len(trace) < MaxCalls
    /\ \E rec \in socks :
          IF rec
          THEN \E out \in RealOutcomes :
                  trace' = Append(trace, Did(Call("fileno", <<>>, NoKw), "R", out))
          ELSE trace' = Append(trace, Did(Call("fileno", <<>>, NoKw), "none", Ok("fd")))
    /\ printed' = printed \cup Detail(cfg)
    /\ UNCHANGED <<pyver, cfg, deco, installed, status, playlist, tape, src,
                   socks, run, saved, recTrace, recSrc, outcome>>

\* a call on the original transport (socket.socket is orig_socket)
RealCall(c) ==
    /\ run # "idle"
    /\ ~installed
    /\ Len(trace) < MaxCalls
    /\ \E out \in RealOutcomes : trace' = Append(trace, Did(c, "real", out))
    /\ UNCHANGED <<pyver, cfg, deco, installed, status, playlist, tape, src,
                   socks, run, saved, recTrace, recSrc, printed, outcome>>

\* a nested run that leaves the queue of the run around it alone: told apart
\* by C34
NestedRunKeepsQueue ==
    /\ run \in {"rec", "play"}
    /\ installed
    /\ installed' = stop.installed
    /\ status' = stop.status
    /\ UNCHANGED <<pyver, cfg, deco, playlist, tape, src, socks, run, saved,
                   trace, recTrace, recSrc, printed, outcome>>

\* the body calls another decorated, enabled test (on a tape file of its
\* own), which runs from its __enter__ to its __exit__: its start() clears
\* the playlist, sets the status and applies the patches again, its branch
\* sets the status and may load its own playlist, its stop() reverts the
\* patches, clears the playlist and sets the status; VCRSystem.debug is put
\* back by its __exit__
NestedRun ==
    /\ run \in {"rec", "play"}
    /\ installed
    /\ playlist' = stop.playlist
    /\ installed' = stop.installed
    /\ status' = stop.status
    /\ UNCHANGED <<pyver, cfg, deco, tape, src, socks, run, saved, trace,
                   recTrace, recSrc, printed, outcome>>

----------------------------------------------------------------------------
(* _vcr_inner after the call of the test body *)

\* the playlist written to the tape: playlist.insert(0, sha256)
Written(pl, s) == <<ShaItem(get_source_code_sha256(s))>> \o pl

\* Persist that needs two records before it writes: told apart by C3
PersistFromTwo(t, pl, s) ==
    IF Len(pl) < 2 THEN t ELSE [exists |-> TRUE, content |-> Written(pl, s)]

\* Persist that writes the file whatever the playlist holds: told apart by
\* C38
PersistAlways(t, pl, s) == [exists |-> TRUE, content |-> Written(pl, s)]

\* os.remove(tape); pickle.dump(VCRSystem.playlist, fh): the file after a
\* record run whose body returned
Persist(t, pl, s) ==
    IF Len(pl) = 0 THEN t ELSE [exists |-> TRUE, content |-> Written(pl, s)]

\* the body returns in record mode. recTrace is history, kept (track) only by
\* the specifications that follow a tape from its recording to its replay
ReturnRecord(track) ==
    /\ run = "rec"
    /\ tape' = Persist(tape, playlist, src)
    /\ recTrace' = IF track /\ Len(playlist) # 0 THEN trace ELSE recTrace
    /\ recSrc' = IF Len(playlist) # 0 THEN src ELSE recSrc
    /\ UNCHANGED printed
    /\ outcome' = IF Len(playlist) # 0 THEN Outcome("return", "", "rec")
                  ELSE IF cfg.raise_if_not_needed
                       THEN Outcome("raise", "NotNeeded", "rec")
                       ELSE Outcome("warned", "", "rec")
    /\ cfg' = ExitCfg(cfg, saved)
    /\ saved' = NotSaved
    /\ playlist' = stop.playlist
    /\ installed' = stop.installed
    /\ status' = stop.status
    /\ run' = "idle"
    /\ trace' = <<>>
    /\ socks' = {}
    /\ UNCHANGED <<pyver, deco, src>>

\* A return in playback mode that writes what is left of the playlist to the
\* tape: told apart by C8
ReturnOtherWrites ==
    /\ run \in {"play", "py2"}
    /\ tape' = [exists |-> TRUE, content |-> Written(playlist, src)]
    /\ outcome' = Outcome("return", "", run)
    /\ cfg' = ExitCfg(cfg, saved)
    /\ saved' = NotSaved
    /\ playlist' = stop.playlist
    /\ installed' = stop.installed
    /\ status' = stop.status
    /\ run' = "idle"
    /\ trace' = <<>>
    /\ socks' = {}
    /\ UNCHANGED <<pyver, deco, src, recTrace, recSrc, printed>>

\* A return in playback mode that fails when records are left in the
\* playlist: told apart by C19
ReturnOtherDemandsDrain ==
    /\ run \in {"play", "py2"}
    /\ outcome' = IF playlist # <<>> THEN Outcome("raise", "Leftover", run)
                  ELSE Outcome("return", "", run)
    /\ cfg' = ExitCfg(cfg, saved)
    /\ saved' = NotSaved
    /\ playlist' = stop.playlist
    /\ installed' = stop.installed
    /\ status' = stop.status
    /\ run' = "idle"
    /\ trace' = <<>>
    /\ socks' = {}
    /\ UNCHANGED <<pyver, deco, tape, src, recTrace, recSrc, printed>>

\* the body returns in playback mode, or in record mode under PY2
ReturnOther ==
    /\ run \in {"play", "py2"}
    /\ outcome' = Outcome("return", "", run)
    /\ cfg' = ExitCfg(cfg, saved)
    /\ saved' = NotSaved
    /\ playlist' = stop.playlist
    /\ installed' = stop.installed
    /\ status' = stop.status
    /\ run' = "idle"
    /\ trace' = <<>>
    /\ socks' = {}
    /\ UNCHANGED <<pyver, deco, tape, src, recTrace, recSrc, printed>>

\* what the body can raise: its own exception, or the one its last call raised
Raisable == {"body"} \cup
    (IF trace # <<>> /\ trace[Len(trace)].out.k = "raise"
     THEN {trace[Len(trace)].out.v} ELSE {})

\* RaiseEnabled that writes the records made so far when the body of a
\* record run raises: told apart by C36
RaiseEnabledPersists(e) ==
    /\ run \in {"rec", "play", "py2"}
    /\ e \in Raisable
    /\ tape' = IF run = "rec" THEN Persist(tape, playlist, src) ELSE tape
    /\ outcome' = Outcome("raise", e, run)
    /\ cfg' = ExitCfg(cfg, saved)
    /\ saved' = NotSaved
    /\ playlist' = stop.playlist
    /\ installed' = stop.installed
    /\ status' = stop.status
    /\ run' = "idle"
    /\ trace' = <<>>
    /\ socks' = {}
    /\ UNCHANGED <<pyver, deco, src, recTrace, recSrc, printed>>

\* the body raises inside with VCRSystem(...): __exit__ runs
RaiseEnabled(e) ==
    /\ run \in {"rec", "play", "py2"}
    /\ e \in Raisable
    /\ outcome' = Outcome("raise", e, run)
    /\ cfg' = ExitCfg(cfg, saved)
    /\ saved' = NotSaved
    /\ playlist' = stop.playlist
    /\ installed' = stop.installed
    /\ status' = stop.status
    /\ run' = "idle"
    /\ trace' = <<>>
    /\ socks' = {}
    /\ UNCHANGED <<pyver, deco, tape, src, recTrace, recSrc, printed>>

\* the body of a disabled run returns or raises: nothing wraps it
EndDisabled ==
    /\ run = "bare"
    /\ \/ outcome' = Outcome("return", "", "bare")
       \/ \E e \in Raisable : outcome' = Outcome("raise", e, "bare")
    /\ run' = "idle"
    /\ trace' = <<>>
    /\ socks' = {}
    /\ UNCHANGED <<pyver, cfg, deco, installed, status, playlist, tape, src,
                   saved, recTrace, recSrc, printed>>

----------------------------------------------------------------------------

Decos == [OptNames -> BOOLEAN]

Next ==
    \/ \E f \in FlagNames : SetFlag(f)
    \/ \E d \in Decos : Decorate(d)
    \/ EditSource
    \/ Reset
    \/ RunDisabled
    \/ RunRecord
    \/ RunRecordPY2
    \/ RunPlayMissing
    \/ RunPlayStale
    \/ RunPlay
    \/ NewSocket
    \/ \E c \in LiveCalls : ExecRecording(c)
    \/ \E c \in LiveCalls : ExecPlayback(c)
    \/ \E c \in LiveCalls : Getaddrinfo(c)
    \/ \E c \in LiveCalls : RealCall(c)
    \/ ReturnRecord(FALSE)
    \/ ReturnOther
    \/ \E e \in {"body", "socket.error", "Mismatch", "IndexError",
                 "AttributeError", "TypeError", "ValueError"} : RaiseEnabled(e)
    \/ EndDisabled

Spec == Init /\ [][Next]_vars

\* A tape followed from its recording to its replay: default flags, the
\* source unchanged, every run enabled
NextRoundTrip ==
    \/ RunRecord
    \/ RunPlay
    \/ NewSocket
    \/ \E c \in LiveCalls : ExecRecording(c)
    \/ \E c \in LiveCalls : ExecPlayback(c)
    \/ \E c \in LiveCalls : Getaddrinfo(c)
    \/ ReturnRecord(TRUE)
    \/ ReturnOther
    \/ \E e \in {"body", "socket.error", "Mismatch", "IndexError",
                 "AttributeError", "TypeError", "ValueError"} : RaiseEnabled(e)

SpecRoundTrip == Init /\ [][NextRoundTrip]_vars

\* The round trip with proxies that outlive the run they were constructed in
NextLeak ==
    \/ RunRecord
    \/ RunPlay
    \/ NewSocket
    \/ ReuseSocket
    \/ \E c \in LiveCalls : ExecRecording(c)
    \/ \E c \in LiveCalls : ExecPlayback(c)
    \/ \E c \in LiveCalls : Getaddrinfo(c)
    \/ ReturnRecord(TRUE)
    \/ ReturnOther
    \/ \E e \in {"body", "socket.error", "Mismatch", "IndexError",
                 "AttributeError", "TypeError", "ValueError"} : RaiseEnabled(e)

SpecLeak == Init /\ [][NextLeak]_vars

\* The fingerprint followed over the edits of a test: any source, default
\* flags, Python 3.5+, bodies that resolve addresses
SourceLine == {<<"a", "nl">>, <<"b", "nl">>, <<"a", "b", "nl">>}

AllSources ==
    [kind : {"method", "doctest"},
     lines : UNION {[1..n -> SourceLine] : n \in 1..MaxLines}]

InitFingerprint ==
    /\ pyver = "py35"
    /\ cfg = DefaultCfg
    /\ deco = DefaultDeco
    /\ installed = FALSE
    /\ status = NoStatus
    /\ playlist = <<>>
    /\ tape = NoTape
    /\ src \in AllSources
    /\ socks = {}
    /\ run = "idle"
    /\ saved = NotSaved
    /\ trace = <<>>
    /\ recTrace = <<>>
    /\ recSrc = NoSrc
    /\ printed = {}
    /\ outcome = Outcome("none", "", "")

\* the test is edited between two runs: any other text of the same kind
EditSourceLines(s) ==
    /\ run = "idle"
    /\ s # src
    /\ s.kind = src.kind
    /\ src' = s
    /\ UNCHANGED <<pyver, cfg, deco, installed, status, playlist, tape, socks,
                   run, saved, trace, recTrace, recSrc, printed, outcome>>

NextFingerprint ==
    \/ \E s \in AllSources : EditSourceLines(s)
    \/ RunRecord
    \/ RunPlayStale
    \/ RunPlay
    \/ \E c \in LiveCalls : Getaddrinfo(c)
    \/ ReturnRecord(FALSE)
    \/ ReturnOther
    \/ \E e \in {"body", "socket.error", "Mismatch", "IndexError",
                 "AttributeError", "TypeError", "ValueError"} : RaiseEnabled(e)

SpecFingerprint == InitFingerprint /\ [][NextFingerprint]_vars

\* Every capability of the proxy, under default flags: the calls that go
\* through _exec and the calls that bypass it
ExecCalls ==
    { Call("connect", <<Obj("addr")>>, NoKw),
      Call("send", <<Bytes(<<"b">>)>>, NoKw),
      Call("sendall", <<Bytes(<<"b">>)>>, NoKw),
      Call("recv", <<Obj("n")>>, NoKw),
      Call("getsockopt", <<Obj("opt")>>, NoKw),
      Call("gettimeout", <<>>, NoKw),
      Call("detach", <<>>, NoKw),
      Call("makefile", <<>>, NoKw),
      Call("getpeercert", <<>>, NoKw) }

PassCalls ==
    { Call("setsockopt", <<Obj("opt")>>, NoKw),
      Call("settimeout", <<Obj("n")>>, NoKw),
      Call("setblocking", <<Obj("n")>>, NoKw),
      Call("close", <<>>, NoKw) }

NextCapabilities ==
    \/ RunRecord
    \/ RunPlay
    \/ NewSocket
    \/ \E c \in ExecCalls : ExecRecording(c)
    \/ \E c \in ExecCalls : ExecPlayback(c)
    \/ \E c \in PassCalls : PassThrough(c)
    \/ ReturnRecord(FALSE)
    \/ ReturnOther
    \/ \E e \in {"body", "socket.error", "Mismatch", "IndexError",
                 "AttributeError", "TypeError", "ValueError"} : RaiseEnabled(e)

SpecCapabilities == Init /\ [][NextCapabilities]_vars

\* Runs under a normalization pipeline of up to MaxNorms functions
Pipelines == UNION {[1..n -> NormFuncs] : n \in 0..MaxNorms}

NormCalls ==
    { Call("sendall", <<Bytes(<<"E">>)>>, NoKw),
      Call("sendall", <<Bytes(<<"b">>)>>, NoKw),
      Call("send", <<Bytes(<<"b">>)>>, NoKw),
      Call("recv", <<Obj("n")>>, NoKw) }

NextNormalize ==
    \/ \E fs \in Pipelines : SetNormalizations(fs)
    \/ Reset
    \/ RunRecord
    \/ RunPlay
    \/ NewSocket
    \/ \E c \in NormCalls : ExecRecording(c)
    \/ \E c \in NormCalls : ExecPlayback(c)
    \/ ReturnRecord(FALSE)
    \/ ReturnOther
    \/ \E e \in {"body", "socket.error", "Mismatch", "IndexError"} : RaiseEnabled(e)

SpecNormalize == Init /\ [][NextNormalize]_vars

\* Runs whose tape holds a request sent in two pieces: a header that ends
\* with the blank line, then the rest
CoalesceCalls ==
    { Call("sendall", <<Bytes(<<"P", "E", "b">>)>>, NoKw),
      Call("sendall", <<Bytes(<<"P", "E">>)>>, NoKw),
      Call("sendall", <<Bytes(<<"b">>)>>, NoKw),
      Call("send", <<Bytes(<<"P", "E">>)>>, NoKw),
      Call("recv", <<Obj("n")>>, NoKw) }

NextCoalesce ==
    \/ \E fs \in {<<>>, <<"send_as_sendall">>} : SetNormalizations(fs)
    \/ SetFlag("raise_outgoing_mismatch")
    \/ RunRecord
    \/ RunPlay
    \/ NewSocket
    \/ \E c \in CoalesceCalls : ExecRecording(c)
    \/ \E c \in CoalesceCalls : ExecPlayback(c)
    \/ ReturnRecord(FALSE)
    \/ ReturnOther
    \/ \E e \in {"body", "socket.error", "Mismatch", "IndexError"} : RaiseEnabled(e)

SpecCoalesce == Init /\ [][NextCoalesce]_vars

\* Runs of a test that is edited after its recording, with the stale check
\* switched on and off
StaleCalls ==
    { Call("sendall", <<Bytes(<<"b">>)>>, NoKw),
      Call("recv", <<Obj("n")>>, NoKw) }

NextStale ==
    \/ SetFlag("raise_if_source_code_changed")
    \/ EditSource
    \/ RunRecord
    \/ RunPlayStale
    \/ RunPlay
    \/ NewSocket
    \/ \E c \in StaleCalls : ExecRecording(c)
    \/ \E c \in StaleCalls : ExecPlayback(c)
    \/ ReturnRecord(FALSE)
    \/ ReturnOther
    \/ \E e \in {"body", "socket.error", "Mismatch", "IndexError"} : RaiseEnabled(e)

SpecStale == Init /\ [][NextStale]_vars

\* Runs whose body calls VCRSystem.reset()
NextReset ==
    \/ SetFlag("debug")
    \/ Reset
    \/ ResetInBody
    \/ RunRecord
    \/ RunPlay
    \/ NewSocket
    \/ \E c \in StaleCalls : ExecRecording(c)
    \/ \E c \in StaleCalls : ExecPlayback(c)
    \/ ReturnRecord(FALSE)
    \/ ReturnOther
    \/ \E e \in {"body", "socket.error", "Mismatch", "IndexError"} : RaiseEnabled(e)

SpecReset == Init /\ [][NextReset]_vars

\* Runs under every combination of a decorator option and a process-wide
\* flag
NextFlags ==
    \/ \E f \in OptNames : SetFlag(f)
    \/ \E d \in Decos : Decorate(d)
    \/ RunDisabled
    \/ RunRecord
    \/ RunRecordPY2
    \/ RunPlayMissing
    \/ RunPlay
    \/ NewSocket
    \/ \E c \in StaleCalls : ExecRecording(c)
    \/ \E c \in StaleCalls : ExecPlayback(c)
    \/ \E c \in StaleCalls : RealCall(c)
    \/ ReturnRecord(FALSE)
    \/ ReturnOther
    \/ \E e \in {"body", "socket.error", "Mismatch", "IndexError"} : RaiseEnabled(e)
    \/ EndDisabled

SpecFlags == Init /\ [][NextFlags]_vars

\* Recording runs whose body asks for file views of the connection, under
\* every setting of recv_size and recv_endmarkers
CaptureCalls == {Call("makefile", <<Obj("rb")>>, NoKw)}

NextCapture ==
    \/ \E size \in 0..2, markers \in {<<>>, << <<"E">> >>} : SetRecv(size, markers)
    \/ Reset
    \/ RunRecord
    \/ NewSocket
    \/ \E c \in CaptureCalls, sched \in Schedules : ExecCapture(c, sched)
    \/ ReturnRecord(FALSE)
    \/ \E e \in {"body", "TypeError"} : RaiseEnabled(e)

SpecCapture == Init /\ [][NextCapture]_vars

\* Runs whose body polls its connection for readiness
SocketLists == {<<>>, <<"s">>}

NextPolling ==
    \/ RunRecord
    \/ RunPlay
    \/ NewSocket
    \/ \E c \in StaleCalls : ExecRecording(c)
    \/ \E c \in StaleCalls : ExecPlayback(c)
    \/ \E r \in SocketLists, w \in SocketLists : Select(r, w, <<>>)
    \/ Epoll
    \/ ReturnRecord(FALSE)
    \/ ReturnOther
    \/ \E e \in {"body", "socket.error", "Mismatch", "IndexError"} : RaiseEnabled(e)

SpecPolling == Init /\ [][NextPolling]_vars

\* Runs whose body runs another decorated test inside the session
NextNested ==
    \/ RunRecord
    \/ RunPlay
    \/ NewSocket
    \/ NestedRun
    \/ \E c \in StaleCalls : ExecRecording(c)
    \/ \E c \in StaleCalls : ExecPlayback(c)
    \/ \E c \in StaleCalls : RealCall(c)
    \/ ReturnRecord(FALSE)
    \/ ReturnOther
    \/ \E e \in {"body", "socket.error", "Mismatch", "IndexError"} : RaiseEnabled(e)

SpecNested == Init /\ [][NextNested]_vars

\* Runs whose body reads (recv, makefile) where the tape holds other records
ReadCalls ==
    { Call("sendall", <<Bytes(<<"b">>)>>, NoKw),
      Call("recv", <<Obj("n")>>, NoKw),
      Call("makefile", <<Obj("rb")>>, NoKw) }

NextReads ==
    \/ \E fs \in {<<>>, <<"drop_b">>} : SetNormalizations(fs)
    \/ SetFlag("raise_outgoing_mismatch")
    \/ RunRecord
    \/ RunPlay
    \/ NewSocket
    \/ \E c \in ReadCalls : ExecRecording(c)
    \/ \E c \in ReadCalls : ExecPlayback(c)
    \/ ReturnRecord(FALSE)
    \/ ReturnOther
    \/ \E e \in {"body", "socket.error", "Mismatch", "IndexError"} : RaiseEnabled(e)

SpecReads == Init /\ [][NextReads]_vars

\* Runs whose body mixes recorded calls with setsockopt, settimeout,
\* setblocking, close and fileno
NextPass ==
    \/ RunRecord
    \/ RunPlay
    \/ NewSocket
    \/ \E c \in StaleCalls : ExecRecording(c)
    \/ \E c \in StaleCalls : ExecPlayback(c)
    \/ \E c \in PassCalls : PassThrough(c)
    \/ Fileno
    \/ ReturnRecord(FALSE)
    \/ ReturnOther
    \/ \E e \in {"body", "socket.error", "Mismatch", "IndexError"} : RaiseEnabled(e)

SpecPass == Init /\ [][NextPass]_vars

----------------------------------------------------------------------------
(* The vocabulary of the properties *)

\* each flag taken as (decorator value OR process-wide value)
EffDisabled == deco.disabled \/ cfg.disabled
EffPlaybackOnly == deco.playback_only \/ cfg.playback_only
EffOverwrite == deco.overwrite \/ cfg.overwrite

\* every flag and every decorator option at its default
DefaultFlags == cfg = DefaultCfg /\ deco = DefaultDeco

\* the step in which a run of the wrapped test begins: the body starts, or
\* the run ends at once with an outcome
RunStart == run = "idle" /\ (run' # "idle" \/ outcome' # outcome)

\* the run begun by the step is a RECORDING run: the session is started in
\* record mode with an empty queue and the body runs inside it
EnteredRecording ==
    run' = "rec" /\ installed' /\ status' = VCR_RECORD /\ playlist' = <<>>

\* the run begun by the step is a PLAYING run: the body runs inside a session
\* in playback mode, or the playback branch failed before the body
EnteredPlaying ==
    \/ run' = "play" /\ installed' /\ status' = VCR_PLAYBACK
    \/ /\ run' = "idle"
       /\ outcome'.k = "raise"
       /\ outcome'.mode = "play"
       /\ outcome'.e \in {"MissingTape", "SourceChanged"}

\* the body runs with no session
RanBare ==
    run' = "bare" /\ UNCHANGED <<installed, status, playlist, tape, cfg>>

\* the body runs after the session was stopped again (record mode under PY2)
RanUnwrapped == run' = "py2" /\ ~installed' /\ UNCHANGED tape

\* the step in which the body of a record-mode run returns
BodyReturnsRecording ==
    run = "rec" /\ run' = "idle" /\
    (outcome'.k \in {"return", "warned"} \/ outcome'.e = "NotNeeded")

\* the calls of a trace that returned, as records, in the order of the calls
Returned(tr) == SelectSeq(tr, LAMBDA d : d.out.k = "ok")
RecordsOf(tr) ==
    [i \in 1..Len(Returned(tr)) |-> Item(Returned(tr)[i].c, Returned(tr)[i].out.v)]

\* the last call of the body
LastCall(tr) == tr[Len(tr)]

----------------------------------------------------------------------------
(* C1: mode selection *)

\* C1 as stated: with each flag taken as decorator OR process-wide value, a
\* disabled run executes the body with no session; otherwise, if playback is
\* not forced and (no tape exists or overwrite is set) the run enters
\* RECORDING; in every other case it enters PLAYING
C1_AsStated ==
    [][RunStart =>
        IF EffDisabled THEN RanBare
        ELSE IF ~EffPlaybackOnly /\ (~tape.exists \/ EffOverwrite)
             THEN EnteredRecording
             ELSE EnteredPlaying]_vars

\* C1 amended: the same selection, where the RECORDING case holds on Python 3;
\* on Python 2 the run selected for RECORDING stops the session and runs the
\* body without it
C1_ModeSelection ==
    [][RunStart =>
        IF EffDisabled THEN RanBare
        ELSE IF ~EffPlaybackOnly /\ (~tape.exists \/ EffOverwrite)
             THEN IF PY2 THEN RanUnwrapped ELSE EnteredRecording
             ELSE EnteredPlaying]_vars

\* a run with playback_only and overwrite both set is playing
C1_Witness ==
    run = "play" /\ EffPlaybackOnly /\ EffOverwrite /\ status = VCR_PLAYBACK

----------------------------------------------------------------------------
(* C2: round trip *)

\* the body of the playing run has so far issued the operations of the
\* recording that wrote the tape, in the same order
SameOperations ==
    /\ Len(trace) <= Len(recTrace)
    /\ \A i \in 1..Len(trace) : trace[i].c = recTrace[i].c

\* C2 as stated: a PLAYING run whose body issues the same sequence of
\* operations as the RECORDING run that wrote the tape gets, at every
\* position, the result the recording run got, and no mismatch or
\* exhausted-tape error
C2_RoundTrip ==
    (run = "play" /\ tape.exists /\ SameOperations) =>
        \A i \in 1..Len(trace) : trace[i].out = recTrace[i].out

----------------------------------------------------------------------------
(* C3: life cycle under default flags *)

\* C3 as stated: with default flags, a run that finds no tape is a RECORDING
\* run; if its body performed at least one recorded operation and returned,
\* a tape file exists afterwards; a run that finds the tape is a PLAYING run
C3_AsStated ==
    [][DefaultFlags =>
        /\ (RunStart /\ ~tape.exists => EnteredRecording)
        /\ (BodyReturnsRecording /\ Returned(trace) # <<>> => tape'.exists)
        /\ (RunStart /\ tape.exists => EnteredPlaying)]_vars

\* C3 amended: the same life cycle on Python 3; on Python 2 the run that
\* finds no tape runs the body without a session and leaves no tape
C3_LifeCycle ==
    [][DefaultFlags =>
        /\ (RunStart /\ ~tape.exists =>
               IF PY2 THEN RanUnwrapped ELSE EnteredRecording)
        /\ (BodyReturnsRecording /\ Returned(trace) # <<>> => tape'.exists)
        /\ (RunStart /\ tape.exists => EnteredPlaying)]_vars

\* a run under default flags replays the tape an earlier run left
C3_Witness ==
    DefaultFlags /\ run = "play" /\ tape.exists /\ Len(trace) = 1 /\
    trace[1].out.k = "ok"

----------------------------------------------------------------------------
(* C4: the error of an outgoing mismatch *)

\* the record a live call is matched against: the head of the queue, its
\* payload joined with the next record's where the continuation rule applies
Matched(pl, c) ==
    [name |-> Head(pl).name, args |-> Lookahead(Head(pl), Tail(pl), c).args,
     kwargs |-> Head(pl).kwargs]

\* C4 as stated: in a PLAYING run with checking enabled, a live call other
\* than recv/makefile whose (name, args, kwargs) differs from that of the
\* record it is matched against fails with the outgoing-traffic-mismatch
\* error, whatever the shape of the record
C4_MismatchError ==
    [][(/\ run = "play"
        /\ Len(trace') = Len(trace) + 1
        /\ cfg.raise_outgoing_mismatch
        /\ LastCall(trace').c.name \notin {"recv", "makefile"}
        /\ playlist # <<>>
        /\ Matched(playlist, LastCall(trace').c) # LastCall(trace').c)
       => LastCall(trace').out = Raise("Mismatch")]_vars

----------------------------------------------------------------------------
(* C5: strict FIFO consumption *)

\* a live call to which neither coalescing rule can apply
Plain(c) ==
    /\ ~(BeforePy35 /\ c.name = "makefile")
    /\ ~(/\ cfg.raise_outgoing_mismatch
         /\ c.name = "sendall"
         /\ Len(c.args) = 1
         /\ c.args[1].t = "bytes"
         /\ StartsWithPost(c.args[1]))

----------------------------------------------------------------------------
(* C6: the persisted tape *)

\* C6: when the body of a RECORDING run returns after n >= 1 recorded
\* operations, the tape file is exactly the fingerprint followed by the n
\* records, one per call, in the order of the calls, whatever was at that
\* path before
C6_PersistedTape ==
    [][(BodyReturnsRecording /\ Returned(trace) # <<>>) =>
        tape' = [exists |-> TRUE,
                 content |-> <<ShaItem(get_source_code_sha256(src))>> \o
                             RecordsOf(trace)]]_vars

\* a recording of an address resolution followed by a socket call was
\* persisted
C6_Witness ==
    /\ run = "idle"
    /\ outcome = Outcome("return", "", "rec")
    /\ Len(tape.content) = 3
    /\ tape.content[1].name = "#sha256"
    /\ tape.content[2].name = "getaddrinfo"
    /\ tape.content[3].name = "recv"

----------------------------------------------------------------------------
(* C7: missing tape *)

\* the run ended with the missing-tape error before the body made a step
MissingTapeFailure ==
    /\ run' = "idle"
    /\ outcome' = Outcome("raise", "MissingTape", "play")
    /\ trace' = <<>>
    /\ ~installed'
    /\ ~tape'.exists

\* C7 as stated: a run that enters PLAYING with no tape file fails with the
\* missing-tape error before the body executes and leaves no tape; the next
\* run, with playback no longer forced, is a RECORDING run
C7_AsStated ==
    [][/\ (RunStart /\ ~EffDisabled /\ EffPlaybackOnly /\ ~tape.exists)
              => MissingTapeFailure
       /\ (/\ RunStart
           /\ outcome.e = "MissingTape"
           /\ ~EffDisabled /\ ~EffPlaybackOnly /\ ~tape.exists)
              => EnteredRecording]_vars

\* C7 amended: the same, where the next run records on Python 3; on Python 2
\* it runs the body without a session
C7_MissingTape ==
    [][/\ (RunStart /\ ~EffDisabled /\ EffPlaybackOnly /\ ~tape.exists)
              => MissingTapeFailure
       /\ (/\ RunStart
           /\ outcome.e = "MissingTape"
           /\ ~EffDisabled /\ ~EffPlaybackOnly /\ ~tape.exists)
              => IF PY2 THEN RanUnwrapped ELSE EnteredRecording]_vars

\* a run with playback forced has failed for want of a tape
C7_Witness ==
    /\ run = "idle"
    /\ outcome = Outcome("raise", "MissingTape", "play")
    /\ EffPlaybackOnly
    /\ ~tape.exists

----------------------------------------------------------------------------
(* C8: a PLAYING run leaves the tape file alone *)

\* C8: no step of a run that enters PLAYING (its entry, the calls of its
\* body, its end with whatever outcome) changes the tape file
C8_TapeUntouched ==
    [][(\/ run = "play"
        \/ /\ RunStart
           /\ ~EffDisabled
           /\ ~(~EffPlaybackOnly /\ (~tape.exists \/ EffOverwrite)))
       => tape' = tape]_vars

\* a PLAYING run has ended with an outgoing mismatch
C8_Witness ==
    /\ run = "idle"
    /\ outcome = Outcome("raise", "Mismatch", "play")
    /\ tape.exists

----------------------------------------------------------------------------
(* C9: disabled runs *)

\* C9: a disabled run executes the body directly: its entry installs nothing
\* and no step of it changes the interception, the session mode, the queue
\* or the tape file
C9_DisabledRun ==
    [][/\ (RunStart /\ EffDisabled) => (RanBare /\ ~installed')
       /\ run = "bare" =>
              (~installed /\ UNCHANGED <<installed, status, playlist, tape>>)]_vars

\* the body of a disabled run made a call while playback was forced and no
\* tape existed
C9_Witness ==
    /\ run = "bare"
    /\ EffDisabled
    /\ EffPlaybackOnly
    /\ ~tape.exists
    /\ Len(trace) = 1

----------------------------------------------------------------------------
(* C10: the engine after an enabled run *)

\* C10: after an enabled run has ended, whatever its outcome, interception is
\* uninstalled, the session mode is RECORD and the queue is empty
C10_AfterRun ==
    (run = "idle" /\ outcome.mode \in {"rec", "play", "py2"}) =>
        (~installed /\ status = VCR_RECORD /\ playlist = <<>>)

\* an enabled run has ended on an exhausted tape
C10_Witness ==
    /\ run = "idle"
    /\ outcome = Outcome("raise", "IndexError", "play")
    /\ ~installed

----------------------------------------------------------------------------
(* C11: no real I/O and no recording while PLAYING *)

\* C11 as stated: while the session is in PLAYING mode no call of the body,
\* on whatever proxy (one constructed in an earlier RECORDING session
\* included) or to address resolution, operates on a real connection, and
\* none appends a record to the queue
C11_NoRealIO ==
    [][(run = "play" /\ status = VCR_PLAYBACK /\ Len(trace') = Len(trace) + 1)
       => (LastCall(trace').via # "R" /\ Len(playlist') <= Len(playlist))]_vars

----------------------------------------------------------------------------
(* C12: stale fingerprint *)

\* the run selects PLAYING: enabled, and not the RECORDING case
SelectsPlaying ==
    ~EffDisabled /\ ~(~EffPlaybackOnly /\ (~tape.exists \/ EffOverwrite))

\* C12: a run that enters PLAYING with stale-fingerprint checking enabled and
\* a tape whose stored fingerprint differs from the fingerprint of the
\* current source fails with the stale-fingerprint error in its first step:
\* the body makes no step and the records of the tape stay as they are
C12_StaleFails ==
    [][(/\ RunStart
        /\ SelectsPlaying
        /\ tape.exists
        /\ cfg.raise_if_source_code_changed
        /\ tape.content[1].value # get_source_code_sha256(src))
       => /\ run' = "idle"
          /\ outcome' = Outcome("raise", "SourceChanged", "play")
          /\ trace' = <<>>
          /\ ~installed'
          /\ tape' = tape]_vars

\* a PLAYING run has failed on a tape recorded from another source
C12_Witness ==
    /\ run = "idle"
    /\ outcome = Outcome("raise", "SourceChanged", "play")
    /\ tape.exists
    /\ Len(tape.content) >= 2
    /\ tape.content[1].value # get_source_code_sha256(src)
    /\ cfg.raise_if_source_code_changed

----------------------------------------------------------------------------
(* C13: a recording without transport operations *)

\* C13 as stated: when the body of a RECORDING run returns without a recorded
\* operation, the run raises if raise_if_not_needed is set and warns
\* otherwise, and in the warning case no tape file exists after the run,
\* whether or not one existed before it
C13_NotNeeded ==
    [][(BodyReturnsRecording /\ Returned(trace) = <<>>) =>
        IF cfg.raise_if_not_needed
        THEN outcome' = Outcome("raise", "NotNeeded", "rec")
        ELSE outcome' = Outcome("warned", "", "rec") /\ ~tape'.exists]_vars

----------------------------------------------------------------------------
(* C14: the queue after an outgoing mismatch *)

\* the body of the run makes a call in this step
BodyCalls == run # "idle" /\ Len(trace') = Len(trace) + 1

\* C14: in a PLAYING run the call that raises the outgoing mismatch leaves
\* the queue empty, and every later call of the run raises and leaves it
\* empty
C14_MismatchDiscards ==
    [][(run = "play" /\ BodyCalls) =>
        /\ LastCall(trace').out = Raise("Mismatch") => playlist' = <<>>
        /\ (\E i \in 1..Len(trace) : trace[i].out = Raise("Mismatch")) =>
               (LastCall(trace').out.k = "raise" /\ playlist' = <<>>)]_vars

\* a call failed after a mismatch had discarded the records still queued
C14_Witness ==
    /\ run = "play"
    /\ Len(trace) = 2
    /\ trace[1].out = Raise("Mismatch")
    /\ trace[2].out = Raise("IndexError")
    /\ Len(tape.content) = 3
    /\ playlist = <<>>

----------------------------------------------------------------------------
(* C15: the exhausted tape *)

\* C15: in a PLAYING run a call made while the queue is empty raises
\* (IndexError of playlist.pop(0)) and returns nothing, whatever the flags
\* and whatever the call
C15_Exhausted ==
    [][(run = "play" /\ BodyCalls /\ playlist = <<>>) =>
        (LastCall(trace').out = Raise("IndexError") /\ playlist' = <<>>)]_vars

\* a recv on the exhausted tape failed with mismatch checking switched off
C15_Witness ==
    /\ run = "play"
    /\ ~cfg.raise_outgoing_mismatch
    /\ Len(trace) = 2
    /\ trace[1].out.k = "ok"
    /\ trace[2].c.name = "recv"
    /\ trace[2].out = Raise("IndexError")

----------------------------------------------------------------------------
(* C16: divergent calls with checking disabled *)

\* the (name, args, kwargs) of a record
CallOf(e) == Call(e.name, e.args, e.kwargs)

\* C16: in a PLAYING run with raise_outgoing_mismatch off, a live call other
\* than recv/makefile that differs from the record at the head of the queue
\* returns that record's result, and the queue loses exactly that record
C16_Unchecked ==
    [][(/\ run = "play"
        /\ BodyCalls
        /\ ~cfg.raise_outgoing_mismatch
        /\ playlist # <<>>
        /\ LastCall(trace').c.name \notin {"recv", "makefile"}
        /\ CallOf(Head(playlist)) # LastCall(trace').c)
       => /\ LastCall(trace').out = Ok(Head(playlist).value)
          /\ playlist' = Tail(playlist)]_vars

\* a sendall was answered with the result of a recorded recv and the record
\* behind it is still queued
C16_Witness ==
    /\ run = "play"
    /\ ~cfg.raise_outgoing_mismatch
    /\ Len(trace) = 1
    /\ trace[1].c.name = "sendall"
    /\ Len(tape.content) = 3
    /\ tape.content[2].name = "recv"
    /\ trace[1].out = Ok(tape.content[2].value)
    /\ playlist = <<tape.content[3]>>

----------------------------------------------------------------------------
(* C17: reset *)

\* C17 as stated: VCRSystem.reset() leaves every process-wide flag at its
\* default, whatever the flags were before the call
C17_ResetDefaults == [][Reset => cfg' = DefaultCfg]_vars

----------------------------------------------------------------------------
(* C18: decorator options and the process-wide flags *)

\* the process-wide flags as they were when the current run began: the
\* flags now, with debug as the session remembers it
FlagsBefore == IF saved.on THEN [cfg EXCEPT !.debug = saved.dbg] ELSE cfg

\* C18: a run never changes the process-wide flags for good: its first step
\* remembers them, no step of its body changes what is remembered, and its
\* last step, return or error, puts them back
C18_FlagsRestored ==
    [][/\ RunStart => FlagsBefore' = cfg
       /\ (run # "idle" /\ run' # "idle") => FlagsBefore' = FlagsBefore
       /\ (run # "idle" /\ run' = "idle") => cfg' = FlagsBefore]_vars

\* a run decorated with debug=True has ended in an error and
\* VCRSystem.debug is off as before
C18_Witness ==
    /\ run = "idle"
    /\ deco.debug
    /\ ~cfg.debug
    /\ outcome = Outcome("raise", "body", "play")

----------------------------------------------------------------------------
(* C19: the queue at the end of a successful PLAYING run *)

\* the step in which the body of a playback-mode run returns: the run ends
\* and not by an exception leaving the body
BodyReturnsPlaying ==
    /\ run = "play"
    /\ run' = "idle"
    /\ outcome'.e \notin {"body", "socket.error", "Mismatch", "IndexError",
                          "AttributeError", "TypeError", "ValueError"}

\* C19 as stated: when the body of a PLAYING run returns, every record of
\* the loaded tape has been consumed by a live call: the queue is already
\* empty
C19_AsStated == [][BodyReturnsPlaying => playlist = <<>>]_vars

\* C19 amended: when the body of a PLAYING run returns, the run succeeds
\* whether or not records are left, and the queue is empty afterwards (what
\* the calls of the body did not consume is discarded); the tape file keeps
\* every record
C19_QueueEmptied ==
    [][BodyReturnsPlaying =>
        /\ outcome' = Outcome("return", "", "play")
        /\ playlist' = <<>>
        /\ tape' = tape]_vars

\* a PLAYING run of a tape with two records has returned and the queue is
\* empty
C19_Witness ==
    /\ run = "idle"
    /\ outcome = Outcome("return", "", "play")
    /\ Len(tape.content) = 3
    /\ playlist = <<>>

----------------------------------------------------------------------------
(* C20: the fingerprint *)

\* the lines of a source without the wrapper line: a test method has the
\* decorator line first, the examples of a doctest hold no such line
BodyLines(s) == IF s.kind = "method" THEN Tail(s.lines) ELSE s.lines

----------------------------------------------------------------------------
(* C21: the mode banner *)

\* debug is on at decorator or process-wide level
EffDebug == deco.debug \/ cfg.debug

\* C21: a run that enters RECORDING prints the banner 'VCR RECORDING', and a
\* run that enters PLAYING the banner 'VCR PLAYBACK' (also when it then fails
\* for a missing tape), exactly when debug is on at decorator or
\* process-wide level; with debug off an enabled run prints nothing, and a
\* disabled run prints nothing whatever debug says
C21_Banner ==
    [][/\ (RunStart /\ EnteredRecording) =>
              printed' = (IF EffDebug THEN {"VCR RECORDING"} ELSE {})
       /\ (RunStart /\ EnteredPlaying) =>
              /\ EffDebug <=> "VCR PLAYBACK" \in printed'
              /\ "VCR RECORDING" \notin printed'
              /\ ~EffDebug => printed' = {}
       /\ (RunStart /\ EffDisabled) => printed' = {}
       /\ (run \in {"rec", "play"} /\ ~cfg.debug) => printed' = {}
       /\ run = "bare" => printed' = {}]_vars

\* a run with debug on has printed the playback banner and failed for a
\* missing tape
C21_Witness ==
    /\ run = "idle"
    /\ outcome = Outcome("raise", "MissingTape", "play")
    /\ EffDebug
    /\ printed = {"VCR PLAYBACK"}

----------------------------------------------------------------------------
(* C22: what a recording proxy records *)

\* C22 as stated: in a RECORDING run every call of a capability of the proxy
\* that returns was made on the real connection, appended exactly one record
\* (name, args, kwargs, result) to the queue and returned the real result
C22_AsStated ==
    [][(run = "rec" /\ BodyCalls /\ LastCall(trace').out.k = "ok") =>
        /\ LastCall(trace').via = "R"
        /\ playlist' = Append(playlist, Item(LastCall(trace').c,
                                              LastCall(trace').out.v))]_vars

\* C22 amended: in a RECORDING run every call of a capability is made on the
\* real connection; one that returns appends exactly one record and returns
\* the real result when it is connect, send, sendall, recv, getsockopt,
\* gettimeout, detach, makefile or getpeercert, and appends nothing when it
\* is setsockopt, settimeout, setblocking or close
C22_Recording ==
    [][(run = "rec" /\ BodyCalls) =>
        /\ LastCall(trace').via = "R"
        /\ LastCall(trace').out.k = "ok" =>
               IF LastCall(trace').c.name \in
                      {"setsockopt", "settimeout", "setblocking", "close"}
               THEN playlist' = playlist
               ELSE playlist' = Append(playlist, Item(LastCall(trace').c,
                                                      LastCall(trace').out.v))]_vars

\* a settimeout and a connect were made in a RECORDING run and only the
\* connect is in the queue
C22_Witness ==
    /\ run = "rec"
    /\ Len(trace) = 2
    /\ trace[1].c.name = "settimeout"
    /\ trace[1].out.k = "ok"
    /\ trace[2].c.name = "connect"
    /\ trace[2].via = "R"
    /\ playlist = <<Item(trace[2].c, trace[2].out.v)>>

----------------------------------------------------------------------------
(* C23: a transport operation that raises while recording *)

\* C23: in a RECORDING run a call on the real connection that raises appends
\* exactly one record to the queue, the record of that call with the
\* exception as its result
C23_ExceptionCaptured ==
    [][(/\ run = "rec"
        /\ BodyCalls
        /\ LastCall(trace').via = "R"
        /\ LastCall(trace').out.k = "raise") =>
            playlist' = Append(playlist, Item(LastCall(trace').c,
                                              LastCall(trace').out))]_vars

----------------------------------------------------------------------------
(* C24: the normalization pipeline *)

\* the triple t after the functions fs, each applied to the output of the
\* one before it
RECURSIVE Piped(_, _)
Piped(fs, t) ==
    IF fs = <<>> THEN t
    ELSE ApplyNorm(fs[Len(fs)], Piped(SubSeq(fs, 1, Len(fs) - 1), t))

\* C24: in a PLAYING run with checking enabled, a live call other than
\* recv/makefile returns the result of the record it is matched against,
\* as recorded, when the live triple and the recorded triple are equal after
\* both went through every function of the pipeline in configured order, and
\* fails with the outgoing mismatch when they are not
C24_Normalized ==
    [][(/\ run = "play"
        /\ BodyCalls
        /\ LastCall(trace').via = "P"
        /\ cfg.raise_outgoing_mismatch
        /\ playlist # <<>>
        /\ LastCall(trace').c.name \notin {"recv", "makefile"}
        /\ Lookahead(Head(playlist), Tail(playlist), LastCall(trace').c).err = "") =>
            LastCall(trace').out =
                IF Piped(cfg.outgoing_check_normalizations,
                         Matched(playlist, LastCall(trace').c)) =
                   Piped(cfg.outgoing_check_normalizations, LastCall(trace').c)
                THEN Ok(Head(playlist).value)
                ELSE Raise("Mismatch")]_vars

\* under the pipeline (E_to_b, drop_b) a live sendall of b was matched
\* against a recorded sendall of E and got the recorded result; the triples
\* differ as they are and under the pipeline in the other order
C24_Witness ==
    /\ run = "play"
    /\ cfg.raise_outgoing_mismatch
    /\ cfg.outgoing_check_normalizations = <<"E_to_b", "drop_b">>
    /\ Len(tape.content) = 2
    /\ CallOf(tape.content[2]) = Call("sendall", <<Bytes(<<"E">>)>>, NoKw)
    /\ Len(trace) = 1
    /\ trace[1].c = Call("sendall", <<Bytes(<<"b">>)>>, NoKw)
    /\ trace[1].out = Ok(tape.content[2].value)
    /\ playlist = <<>>

----------------------------------------------------------------------------
(* C25: the lookahead that joins a request header and its continuation *)

\* the call of the step returned and took two records off the queue, and not
\* by the makefile resynchronisation of interpreters older than 3.5
Coalesced ==
    /\ LastCall(trace').out.k = "ok"
    /\ Len(playlist) >= 2
    /\ playlist' = Tail(Tail(playlist))
    /\ ~(BeforePy35 /\ LastCall(trace').c.name = "makefile")

\* C25: in a PLAYING run a call takes a second record off the queue only with
\* checking enabled, when the live call, the popped record and the next
\* record are all sendall, the popped payload ends with the blank line and
\* the live payload does not; it is then compared with the concatenation of
\* the two payloads and gets the result of the popped record; any other call
\* that returns takes exactly one record off the queue
C25_Coalescing ==
    [][(run = "play" /\ BodyCalls /\ LastCall(trace').via = "P") =>
        /\ Coalesced =>
            /\ cfg.raise_outgoing_mismatch
            /\ LastCall(trace').c.name = "sendall"
            /\ playlist[1].name = "sendall"
            /\ playlist[2].name = "sendall"
            /\ EndsWithBlankLine(playlist[1].args[1])
            /\ ~EndsWithBlankLine(LastCall(trace').c.args[1])
            /\ Piped(cfg.outgoing_check_normalizations,
                     Call(playlist[1].name,
                          <<Concat(playlist[1].args[1], playlist[2].args[1])>>,
                          playlist[1].kwargs)) =
               Piped(cfg.outgoing_check_normalizations, LastCall(trace').c)
            /\ LastCall(trace').out = Ok(playlist[1].value)
        /\ (/\ LastCall(trace').out.k = "ok"
            /\ ~Coalesced
            /\ ~(BeforePy35 /\ LastCall(trace').c.name = "makefile")) =>
                playlist' = Tail(playlist)]_vars

----------------------------------------------------------------------------
(* C26: a changed source with the stale check switched off *)

\* the step begins a run in playback mode over a tape whose stored
\* fingerprint differs from that of the current source, with
\* raise_if_source_code_changed off
StaleUnchecked ==
    /\ RunStart
    /\ SelectsPlaying
    /\ tape.exists
    /\ ~cfg.raise_if_source_code_changed
    /\ get_source_code_sha256(src) # Head(tape.content).value

\* C26 as stated: such a run emits a warning, removes the fingerprint record
\* from the queue and runs the body against the remaining records
C26_AsStated ==
    [][StaleUnchecked =>
        /\ outcome'.k = "warned"
        /\ run' = "play"
        /\ playlist' = Tail(tape.content)]_vars

\* C26 amended: such a run emits no warning and raises nothing: the
\* fingerprint record is removed from the queue and the body runs against
\* the remaining records, as in a run whose fingerprint matches
C26_StaleIgnored ==
    [][/\ StaleUnchecked =>
            /\ outcome' = Outcome("running", "", "play")
            /\ run' = "play"
            /\ playlist' = Tail(tape.content)
            /\ tape' = tape
       /\ run = "play" => outcome'.k # "warned"]_vars

\* the body of a run over a tape recorded from another source, with the
\* stale check off, got the result of the first record after the fingerprint
C26_Witness ==
    /\ run = "play"
    /\ ~cfg.raise_if_source_code_changed
    /\ get_source_code_sha256(src) # Head(tape.content).value
    /\ outcome = Outcome("running", "", "play")
    /\ Len(trace) = 1
    /\ trace[1].via = "P"
    /\ trace[1].out = Ok(tape.content[2].value)
    /\ playlist = Tail(Tail(tape.content))

----------------------------------------------------------------------------
(* C27: VCRSystem.reset() and the tape *)

\* C27: a call of VCRSystem.reset() in the middle of a session (the step
\* that puts the process-wide settings back while the body runs) leaves the
\* queue empty and the tape file as it was
C27_ResetClearsQueue ==
    [][(run \in {"rec", "play"} /\ run' = run /\ cfg' # cfg) =>
        /\ playlist' = <<>>
        /\ tape' = tape]_vars

----------------------------------------------------------------------------
(* C28: decorator options and process-wide flags *)

\* C28 as stated: the decorator's value of debug, overwrite, disabled and
\* playback_only decides, also when it is False and the process-wide flag is
\* True: the run is the one the decorator's values select, and debug is on
\* while the body of an enabled run executes exactly when the decorator says
\* so
C28_AsStated ==
    [][RunStart =>
        /\ IF deco.disabled THEN RanBare
           ELSE IF ~deco.playback_only /\ (~tape.exists \/ deco.overwrite)
                THEN IF PY2 THEN RanUnwrapped ELSE EnteredRecording
                ELSE EnteredPlaying
        /\ (~deco.disabled /\ run' # "idle") => cfg'.debug = deco.debug]_vars

\* C28 amended: each of the four flags is on for an invocation when the
\* decorator's value or the process-wide value is True (debug: while the
\* body of an enabled run executes); a decorator's False does not switch off
\* a process-wide True
C28_EitherLevel ==
    [][RunStart =>
        /\ (deco.disabled \/ cfg.disabled) <=> RanBare
        /\ ~(deco.disabled \/ cfg.disabled) =>
            /\ run' # "idle" => cfg'.debug = (deco.debug \/ cfg.debug)
            /\ IF /\ ~(deco.playback_only \/ cfg.playback_only)
                  /\ (~tape.exists \/ deco.overwrite \/ cfg.overwrite)
               THEN IF PY2 THEN RanUnwrapped ELSE EnteredRecording
               ELSE EnteredPlaying
        /\ (~deco.disabled /\ cfg.disabled) => RanBare
        /\ (/\ ~(deco.disabled \/ cfg.disabled)
            /\ ~deco.playback_only /\ cfg.playback_only) => EnteredPlaying
        /\ (/\ ~(deco.disabled \/ cfg.disabled)
            /\ ~(deco.playback_only \/ cfg.playback_only)
            /\ ~deco.overwrite /\ cfg.overwrite
            /\ ~PY2) => EnteredRecording]_vars

\* a run over an existing tape, under a decorator whose overwrite is False
\* and with the process-wide overwrite True, is recording
C28_Witness ==
    /\ run = "rec"
    /\ tape.exists
    /\ ~deco.overwrite
    /\ cfg.overwrite
    /\ status = VCR_RECORD

----------------------------------------------------------------------------
(* C29: end markers in the capture loop *)

\* the step is a call in a RECORDING run whose result was a stream
Captures ==
    /\ run = "rec"
    /\ BodyCalls
    /\ LastCall(trace').c.name = "makefile"
    /\ LastCall(trace').via = "R"

\* C29: with end markers configured and no fixed receive size, a capture in
\* which a chunk ended with an end marker is over at the time that chunk was
\* read
C29_StopsAtMarker ==
    [][(/\ Captures
        /\ cfg.recv_size = 0
        /\ cfg.recv_endmarkers # <<>>
        /\ LastCall(trace').cap.marker >= 0) =>
            LastCall(trace').cap.elapsed = LastCall(trace').cap.marker]_vars

----------------------------------------------------------------------------
(* C30: a fixed receive size in the capture loop *)

\* C30: with recv_size set to an integer, a capture makes one read of at
\* most that many bytes, raises nothing and appends the record of the call
\* with the bytes read as its result
C30_FixedSize ==
    [][(Captures /\ cfg.recv_size > 0) =>
        /\ LastCall(trace').out.k = "ok"
        /\ LastCall(trace').cap.reads = 1
        /\ Len(LastCall(trace').cap.data) <= cfg.recv_size
        /\ playlist' = Append(playlist,
               Item(LastCall(trace').c, Stream(LastCall(trace').cap.data)))]_vars

----------------------------------------------------------------------------
(* C31: how long a capture takes *)

\* C31 as stated: a capture is over at most twice the receive timeout after
\* it began (to within one sleep of the loop), whatever the stream does
C31_AsStated ==
    [][Captures =>
        LastCall(trace').cap.elapsed <= recv_timeout * 2 + 1]_vars

\* C31 amended: a capture of a stream that stops delivering is over at most
\* one receive timeout (and one sleep of the loop) after the last chunk
\* arrived, and at most twice the receive timeout (and one sleep) after it
\* began when no chunk arrived; every chunk restarts the wait
C31_BoundedAfterLastChunk ==
    [][Captures =>
        IF LastCall(trace').cap.data = <<>>
        THEN LastCall(trace').cap.elapsed <= recv_timeout * 2 + 1
        ELSE LastCall(trace').cap.elapsed <=
                 LastCall(trace').cap.begin + recv_timeout + 1]_vars

\* a capture of two chunks, each arriving less than a receive timeout after
\* the one before, took more than twice the receive timeout
C31_Witness ==
    /\ run = "rec"
    /\ Len(trace) = 1
    /\ trace[1].c.name = "makefile"
    /\ Len(trace[1].sched.reads) = 2
    /\ \A i \in 1..2 : /\ trace[1].sched.reads[i].delay > 0
                       /\ trace[1].sched.reads[i].delay < recv_timeout
    /\ trace[1].cap.elapsed > recv_timeout * 2 + 1
    /\ trace[1].out.k = "ok"

----------------------------------------------------------------------------
(* C32: a capture that ends on a timeout without data or on a socket error *)

\* the bytes of all the chunks a stream delivered
Delivered(sched) == Join([i \in DOMAIN sched.reads |-> sched.reads[i].chunk])

\* the capture of the step ended on a socket error, or on the clock with
\* nothing collected
EndedOnFailure ==
    \/ LastCall(trace').cap.how = "socket.error"
    \/ LastCall(trace').cap.how = "timeout" /\ LastCall(trace').cap.data = <<>>

\* C32: a capture that ends on a timeout with no data or on a socket error
\* raises nothing: the call appends one record whose result is the bytes the
\* stream delivered until then (possibly none) and returns a stream with the
\* same bytes
C32_FailureRecorded ==
    [][(Captures /\ EndedOnFailure) =>
        /\ LastCall(trace').out = Ok(Stream(Delivered(LastCall(trace').sched)))
        /\ playlist' = Append(playlist,
               Item(LastCall(trace').c,
                    Stream(Delivered(LastCall(trace').sched))))]_vars

\* a capture that got one chunk and then a socket error returned the chunk
\* and recorded it
C32_Witness ==
    /\ run = "rec"
    /\ Len(trace) = 1
    /\ trace[1].c.name = "makefile"
    /\ trace[1].cap.how = "socket.error"
    /\ Len(trace[1].sched.reads) = 1
    /\ trace[1].out = Ok(Stream(trace[1].sched.reads[1].chunk))
    /\ playlist = <<Item(trace[1].c, Stream(trace[1].sched.reads[1].chunk))>>

----------------------------------------------------------------------------
(* C33: the readiness-polling stand-ins *)

\* C33: in a PLAYING run a call of the select stand-in answers with an empty
\* read list and the caller's write list, a poll of the epoll stand-in with
\* an empty list, both without a real call, and neither changes the queue
C33_Polling ==
    [][(/\ run = "play"
        /\ BodyCalls
        /\ LastCall(trace').c.name \in {"select", "epoll.poll"}) =>
            /\ playlist' = playlist
            /\ LastCall(trace').via = "S"
            /\ LastCall(trace').c.name = "select" =>
                   /\ LastCall(trace').out.k = "ok"
                   /\ LastCall(trace').out.v.r = <<>>
                   /\ LastCall(trace').out.v.w = LastCall(trace').c.args[2]
            /\ LastCall(trace').c.name = "epoll.poll" =>
                   /\ LastCall(trace').out.k = "ok"
                   /\ LastCall(trace').out.v.events = <<>>]_vars

\* a PLAYING run polled a socket for reading and writing: nothing to read,
\* the socket ready to write, the loaded records still queued
C33_Witness ==
    /\ run = "play"
    /\ Len(trace) = 1
    /\ trace[1].c = Call("select", <<<<"s">>, <<"s">>, <<>>>>, NoKw)
    /\ trace[1].out = Ready(<<>>, <<"s">>, <<>>)
    /\ playlist # <<>>
    /\ playlist = Tail(tape.content)

----------------------------------------------------------------------------
(* C34: a run inside a run *)

\* the step is a second enabled run, from its start to its end, inside the
\* body of the first
SecondRun == run \in {"rec", "play"} /\ run' = run /\ installed /\ ~installed'

\* the first run goes on after a second run has ended inside it
AfterSecondRun == run \in {"rec", "play"} /\ ~installed

\* C34 as stated: a second run inside the first leaves the queue empty, the
\* shared mode reset and the interception uninstalled, raises nothing in the
\* first run, and every call the first body makes after it is a call on the
\* real transport
C34_AsStated ==
    [][/\ SecondRun =>
            /\ playlist' = <<>>
            /\ status' = VCR_RECORD
            /\ outcome' = outcome
       /\ (AfterSecondRun /\ BodyCalls) =>
            LastCall(trace').via \in {"R", "real"}]_vars

\* C34 amended: the same effect of the second run; after it a call on a new
\* socket is a call on the real transport, a call on a proxy the first body
\* built before in record mode is made on the real connection and recorded
\* in the emptied queue, and a call on a proxy it built before in playback
\* mode is not made on the real transport: it finds the queue empty and
\* fails with IndexError
C34_NotIsolated ==
    [][/\ SecondRun =>
            /\ playlist' = <<>>
            /\ status' = VCR_RECORD
            /\ outcome' = outcome
            /\ socks' = socks
       /\ (AfterSecondRun /\ BodyCalls) =>
            \/ LastCall(trace').via = "real" /\ playlist' = playlist
            \/ /\ LastCall(trace').via = "R"
               /\ TRUE \in socks
               /\ playlist' = RecordCall(playlist, LastCall(trace').c,
                                         LastCall(trace').out)
            \/ /\ LastCall(trace').via = "P"
               /\ FALSE \in socks
               /\ playlist = <<>>
               /\ LastCall(trace').out = Raise("IndexError")
               /\ playlist' = <<>>]_vars

\* a PLAYING run in which a second run came and went: its tape has records,
\* its queue is empty, and a call on its proxy failed with IndexError
C34_Witness ==
    /\ run = "play"
    /\ ~installed
    /\ status = VCR_RECORD
    /\ Len(tape.content) >= 2
    /\ playlist = <<>>
    /\ Len(trace) = 1
    /\ trace[1].via = "P"
    /\ trace[1].out = Raise("IndexError")

----------------------------------------------------------------------------
(* C35: recv and makefile in a PLAYING run *)

\* the step is a recv or makefile call on a playback proxy that finds a
\* record in the queue
ReadReplayed ==
    /\ BodyCalls
    /\ LastCall(trace').via = "P"
    /\ LastCall(trace').c.name \in {"recv", "makefile"}
    /\ playlist # <<>>

\* the one record-skipping rule of replay_next: before Python 3.5 a makefile
\* call that meets a sendall record
SkipsSendall ==
    /\ BeforePy35
    /\ LastCall(trace').c.name = "makefile"
    /\ Head(playlist).name = "sendall"

\* C35 as stated: a replayed recv or makefile call removes the record at the
\* head of the queue and returns that record's result, whatever the record
\* is, and never raises a mismatch
C35_AsStated ==
    [][ReadReplayed =>
          /\ playlist' = Tail(playlist)
          /\ LastCall(trace').out = Ok(Head(playlist).value)]_vars

\* C35 amended: a replayed recv or makefile call is never compared with a
\* record and never raises a mismatch, whatever the flags and the
\* normalization pipeline are. It removes the head record and returns its
\* result, except before Python 3.5 for a makefile call that meets a sendall
\* record: that record is dropped, the call removes the record after it and
\* returns the result of that one, and fails with IndexError when there is
\* none
C35_ReadsUnchecked ==
    [][ReadReplayed =>
          /\ LastCall(trace').out # Raise("Mismatch")
          /\ IF ~SkipsSendall
             THEN /\ playlist' = Tail(playlist)
                  /\ LastCall(trace').out = Ok(Head(playlist).value)
             ELSE IF Len(playlist) = 1
             THEN /\ playlist' = <<>>
                  /\ LastCall(trace').out = Raise("IndexError")
             ELSE /\ playlist' = Tail(Tail(playlist))
                  /\ LastCall(trace').out = Ok(playlist[2].value)]_vars

\* with the mismatch check on and a pipeline set, a recv call met a sendall
\* record and returned its result
C35_Witness ==
    /\ run = "play"
    /\ cfg.raise_outgoing_mismatch
    /\ cfg.outgoing_check_normalizations # <<>>
    /\ Len(trace) = 1
    /\ trace[1].via = "P"
    /\ trace[1].c.name = "recv"
    /\ tape.content[2].name = "sendall"
    /\ trace[1].out = Ok(tape.content[2].value)
    /\ playlist = Tail(Tail(tape.content))

----------------------------------------------------------------------------
(* C36: the body of a RECORDING run raises *)

\* the step ends a RECORDING run with an exception of the body (its own, or
\* the one a call of it raised)
BodyRaisedRecording ==
    /\ run = "rec"
    /\ run' = "idle"
    /\ outcome'.k = "raise"
    /\ outcome'.e \in Raisable

\* C36: when the body of a RECORDING run raises, the tape file is left as it
\* was (none is created, an existing one keeps its content, also when its
\* overwrite was forced), the caller gets the exception, and the interception
\* is uninstalled
C36_NothingPersisted ==
    [][BodyRaisedRecording =>
          /\ tape' = tape
          /\ outcome' = Outcome("raise", outcome'.e, "rec")
          /\ ~installed'
          /\ playlist' = <<>>]_vars

\* a RECORDING run over an existing tape (overwrite forced) ended with an
\* exception of its body, and the tape is still there
C36_Witness ==
    /\ run = "idle"
    /\ outcome = Outcome("raise", "socket.error", "rec")
    /\ cfg.overwrite \/ deco.overwrite
    /\ tape.exists
    /\ ~installed

----------------------------------------------------------------------------
(* C37: setsockopt, settimeout, setblocking, close and fileno *)

\* the calls that never go through _exec
Unrecorded == PassNames \cup {"fileno"}

\* the step is one of these calls on a proxy
UnrecordedCall == BodyCalls /\ LastCall(trace').c.name \in Unrecorded

\* the recorded-kind calls of a body, in order
RecordedKind(tr) == SelectSeq(tr, LAMBDA d : d.c.name \notin Unrecorded)

\* the queue left and the results given when the calls cs are replayed, one
\* after the other, on the queue pl
RECURSIVE ReplayAll(_, _)
ReplayAll(pl, cs) ==
    IF cs = <<>> THEN [pl |-> pl, outs |-> <<>>]
    ELSE LET r == ReplayNext(pl, Head(cs), cfg.raise_outgoing_mismatch, BeforePy35)
             rest == ReplayAll(r.pl, Tail(cs))
         IN  [pl |-> rest.pl, outs |-> <<r.out>> \o rest.outs]

\* C37: setsockopt, settimeout, setblocking, close and fileno on a proxy
\* leave the queue and the tape file as they are (no record appended in
\* RECORDING, none consumed in PLAYING) and never end with a mismatch or an
\* exhausted queue; hence in a PLAYING run the recorded-kind calls of the
\* body get the results, and leave the queue, that they get when the body
\* makes none of these calls
C37_Unrecorded ==
    /\ [][UnrecordedCall =>
            /\ playlist' = playlist
            /\ tape' = tape
            /\ LastCall(trace').out \notin {Raise("Mismatch"), Raise("IndexError")}]_vars
    /\ [](run = "play" =>
            LET calls == RecordedKind(trace)
                alone == ReplayAll(Tail(tape.content),
                                   [i \in 1..Len(calls) |-> calls[i].c])
            IN  /\ playlist = alone.pl
                /\ [i \in 1..Len(calls) |-> calls[i].out] = alone.outs)

\* a PLAYING run whose body called settimeout, which the recording did not,
\* and then got the result of the first record from its first recorded-kind
\* call
C37_Witness ==
    /\ run = "play"
    /\ Len(trace) = 2
    /\ trace[1].c.name = "settimeout"
    /\ trace[1].via = "none"
    /\ trace[2].via = "P"
    /\ trace[2].out = Ok(tape.content[2].value)
    /\ playlist = Tail(Tail(tape.content))

----------------------------------------------------------------------------
(* C38: the shape of every tape file *)

\* C38: whatever runs came before (recording, playback, disabled, failed or
\* not, under any flags), a tape file on disk holds the fingerprint first,
\* then at least one operation record, and no fingerprint anywhere else
C38_TapeShape ==
    tape.exists =>
        /\ Len(tape.content) >= 2
        /\ Head(tape.content).name = "#sha256"
        /\ \A i \in 2..Len(tape.content) : tape.content[i].name # "#sha256"

\* a RECORDING run with the overwrite forced has just written the tape: the
\* fingerprint and one record
C38_Witness ==
    /\ run = "idle"
    /\ outcome = Outcome("return", "", "rec")
    /\ cfg.overwrite \/ deco.overwrite
    /\ tape.exists
    /\ Len(tape.content) = 2
    /\ Head(tape.content) = ShaItem(get_source_code_sha256(src))

====
